---- MODULE Spec2Model ----
(***************************************************************************)
(* Model of the command gate (src/src/command/executor.py) and of the      *)
(* session state kept by MainWindow (src/src/ui/main_window.py).           *)
(*                                                                         *)
(* A Python str is a sequence of one-character strings, so that lower(),   *)
(* strip(), the substring test, re.search, shlex.split and the os.path     *)
(* functions are computed character by character, as the library does.     *)
(* os.path is posixpath (the paths of the test-suite are POSIX paths).     *)
(***************************************************************************)
EXTENDS Naturals, Sequences, FiniteSets, TLC

\* ------------------------------------------------------------------------
\* Bounds
\* ------------------------------------------------------------------------
\* longest generated argument text (longer texts come from CuratedCommands)
MaxArgLen == 2

\* ------------------------------------------------------------------------
\* Python str primitives
\* ------------------------------------------------------------------------
UpperLetters == <<"A","B","C","D","E","F","G","H","I","J","K","L","M",
                  "N","O","P","Q","R","S","T","U","V","W","X","Y","Z">>
LowerLetters == <<"a","b","c","d","e","f","g","h","i","j","k","l","m",
                  "n","o","p","q","r","s","t","u","v","w","x","y","z">>

\* the absent value of new_directory (a one-element sequence whose element
\* is no character, so it differs from every str)
None == <<"None">>

\* str.lower() on one character
LowerChar(c) ==
    IF \E i \in 1..26 : UpperLetters[i] = c
    THEN LowerLetters[CHOOSE i \in 1..26 : UpperLetters[i] = c]
    ELSE c

\* str.lower()
StrLower(s) == [i \in 1..Len(s) |-> LowerChar(s[i])]

\* the characters str.strip() removes and the regular expression \s matches
PyWhitespace == {" ", "\t", "\n", "\r", "\f"}

\* str.strip(chars): drop every leading and trailing character of the set
RECURSIVE LStrip(_, _)
LStrip(s, chars) ==
    IF s # <<>> /\ Head(s) \in chars THEN LStrip(Tail(s), chars) ELSE s

RECURSIVE RStrip(_, _)
RStrip(s, chars) ==
    IF s # <<>> /\ s[Len(s)] \in chars
    THEN RStrip(SubSeq(s, 1, Len(s) - 1), chars) ELSE s

StrStrip(s, chars) == RStrip(LStrip(s, chars), chars)

\* sub == s[i : i + len(sub)] (1-based i)
LitAt(s, i, sub) ==
    /\ i >= 1
    /\ i + Len(sub) - 1 <= Len(s)
    /\ \A k \in 1..Len(sub) : s[i + k - 1] = sub[k]

\* the Python test `sub in s`
StrContains(s, sub) == \E i \in 1..(Len(s) + 1) : LitAt(s, i, sub)

\* str.startswith
StartsWith(s, sub) == LitAt(s, 1, sub)

\* sep.join(parts)
RECURSIVE StrJoin(_, _)
StrJoin(sep, parts) ==
    IF parts = <<>> THEN <<>>
    ELSE IF Len(parts) = 1 THEN parts[1]
    ELSE parts[1] \o sep \o StrJoin(sep, Tail(parts))

\* s.split(sep) for a one-character separator
RECURSIVE StrSplit(_, _, _, _)
StrSplit(s, sep, cur, acc) ==
    IF s = <<>> THEN Append(acc, cur)
    ELSE IF Head(s) = sep THEN StrSplit(Tail(s), sep, <<>>, Append(acc, cur))
    ELSE StrSplit(Tail(s), sep, Append(cur, Head(s)), acc)

\* ------------------------------------------------------------------------
\* re.search for the four danger patterns
\* ------------------------------------------------------------------------
\* first index >= i of s that holds no character of the class (Len(s)+1 if
\* none): where a greedy run cls+ that started at i ends
RECURSIVE SkipClass(_, _, _)
SkipClass(s, i, cls) ==
    IF i <= Len(s) /\ s[i] \in cls THEN SkipClass(s, i + 1, cls) ELSE i

\* i is the start of a non-empty run of the class
RunAt(s, i, cls) == i <= Len(s) /\ s[i] \in cls

\* [c-zC-Z]
DriveLetters == {LowerLetters[i] : i \in 3..26} \cup {UpperLetters[i] : i \in 3..26}

\* [/\\]
Slashes == {"/", "\\"}

\* rm\s+-rf\s+[/\\]
MatchRm(s) ==
    \E i \in 1..Len(s) :
        /\ LitAt(s, i, <<"r","m">>)
        /\ RunAt(s, i + 2, PyWhitespace)
        /\ LET j == SkipClass(s, i + 2, PyWhitespace) IN
            /\ LitAt(s, j, <<"-","r","f">>)
            /\ RunAt(s, j + 3, PyWhitespace)
            /\ LET k == SkipClass(s, j + 3, PyWhitespace) IN
                k <= Len(s) /\ s[k] \in Slashes

\* rmdir\s+/s\s+/q\s+[c-zC-Z]:
MatchRmdir(s) ==
    \E i \in 1..Len(s) :
        /\ LitAt(s, i, <<"r","m","d","i","r">>)
        /\ RunAt(s, i + 5, PyWhitespace)
        /\ LET j == SkipClass(s, i + 5, PyWhitespace) IN
            /\ LitAt(s, j, <<"/","s">>)
            /\ RunAt(s, j + 2, PyWhitespace)
            /\ LET k == SkipClass(s, j + 2, PyWhitespace) IN
                /\ LitAt(s, k, <<"/","q">>)
                /\ RunAt(s, k + 2, PyWhitespace)
                /\ LET m == SkipClass(s, k + 2, PyWhitespace) IN
                    /\ m + 1 <= Len(s)
                    /\ s[m] \in DriveLetters
                    /\ s[m + 1] = ":"

\* format\s+[c-zC-Z]:
MatchFormat(s) ==
    \E i \in 1..Len(s) :
        /\ LitAt(s, i, <<"f","o","r","m","a","t">>)
        /\ RunAt(s, i + 6, PyWhitespace)
        /\ LET m == SkipClass(s, i + 6, PyWhitespace) IN
            /\ m + 1 <= Len(s)
            /\ s[m] \in DriveLetters
            /\ s[m + 1] = ":"

\* del\s+/[fFqQsS]+\s+[/\\]
MatchDel(s) ==
    \E i \in 1..Len(s) :
        /\ LitAt(s, i, <<"d","e","l">>)
        /\ RunAt(s, i + 3, PyWhitespace)
        /\ LET j == SkipClass(s, i + 3, PyWhitespace) IN
            /\ LitAt(s, j, <<"/">>)
            /\ RunAt(s, j + 1, {"f","F","q","Q","s","S"})
            /\ LET k == SkipClass(s, j + 1, {"f","F","q","Q","s","S"}) IN
                /\ RunAt(s, k, PyWhitespace)
                /\ LET m == SkipClass(s, k, PyWhitespace) IN
                    m <= Len(s) /\ s[m] \in Slashes

\* ------------------------------------------------------------------------
\* shlex.split(command, posix=False)
\* ------------------------------------------------------------------------
\* shlex.whitespace
ShlexWhitespace == {" ", "\t", "\r", "\n"}

\* shlex.quotes
ShlexQuotes == {"\"", "'"}

\* shlex.read_token, iterated over the text.  state is "ws" (between
\* tokens), "a" (inside a word) or the quote character of an open quoted
\* token.  In non-POSIX mode a quoted token keeps its quotes and ends at the
\* closing quote, a quote inside a word is an ordinary character, and an
\* unclosed quote raises ValueError("No closing quotation").
RECURSIVE ShlexRun(_, _, _, _, _)
ShlexRun(s, i, state, token, acc) ==
    IF i > Len(s)
    THEN IF state = "ws" THEN [ok |-> TRUE, parts |-> acc]
         ELSE IF state = "a" THEN [ok |-> TRUE, parts |-> Append(acc, token)]
         ELSE [ok |-> FALSE, parts |-> <<>>]
    ELSE LET c == s[i] IN
         IF state = "ws"
         THEN IF c \in ShlexWhitespace THEN ShlexRun(s, i + 1, "ws", <<>>, acc)
              ELSE IF c \in ShlexQuotes THEN ShlexRun(s, i + 1, c, <<c>>, acc)
              ELSE ShlexRun(s, i + 1, "a", <<c>>, acc)
         ELSE IF state = "a"
         THEN IF c \in ShlexWhitespace
              THEN ShlexRun(s, i + 1, "ws", <<>>, Append(acc, token))
              ELSE ShlexRun(s, i + 1, "a", Append(token, c), acc)
         ELSE IF c = state
              THEN ShlexRun(s, i + 1, "ws", <<>>, Append(acc, Append(token, c)))
              ELSE ShlexRun(s, i + 1, state, Append(token, c), acc)

\* ok = FALSE stands for the ValueError
shlex_split(command) == ShlexRun(command, 1, "ws", <<>>, <<>>)

\* ------------------------------------------------------------------------
\* os.path (posixpath) and the file system
\* ------------------------------------------------------------------------
Root == <<"/">>

\* os.path.isabs
isabs(path) == StartsWith(path, <<"/">>)

\* os.path.join(a, b)
join(a, b) ==
    IF StartsWith(b, <<"/">>) THEN b
    ELSE IF a = <<>> \/ a[Len(a)] = "/" THEN a \o b
    ELSE a \o <<"/">> \o b

\* the loop of posixpath.normpath over the components
RECURSIVE NormComps(_, _, _)
NormComps(comps, new_comps, initial_slashes) ==
    IF comps = <<>> THEN new_comps
    ELSE LET comp == Head(comps) IN
         IF comp = <<>> \/ comp = <<".">>
         THEN NormComps(Tail(comps), new_comps, initial_slashes)
         ELSE IF \/ comp # <<".", ".">>
                 \/ (initial_slashes = 0 /\ new_comps = <<>>)
                 \/ (new_comps # <<>> /\ new_comps[Len(new_comps)] = <<".", ".">>)
         THEN NormComps(Tail(comps), Append(new_comps, comp), initial_slashes)
         ELSE IF new_comps # <<>>
         THEN NormComps(Tail(comps), SubSeq(new_comps, 1, Len(new_comps) - 1),
                        initial_slashes)
         ELSE NormComps(Tail(comps), new_comps, initial_slashes)

\* os.path.normpath
normpath(path) ==
    IF path = <<>> THEN <<".">>
    ELSE LET initial_slashes ==
                 IF ~StartsWith(path, <<"/">>) THEN 0
                 ELSE IF StartsWith(path, <<"/", "/">>)
                         /\ ~StartsWith(path, <<"/", "/", "/">>) THEN 2
                 ELSE 1
             body == StrJoin(<<"/">>,
                             NormComps(StrSplit(path, "/", <<>>, <<>>), <<>>,
                                       initial_slashes))
             res == IF initial_slashes = 2 THEN <<"/", "/">> \o body
                    ELSE IF initial_slashes = 1 THEN <<"/">> \o body
                    ELSE body
         IN IF res = <<>> THEN <<".">> ELSE res

\* the directories that may exist besides the root, by normalized path
DirA == <<"/", "a">>
DirAA == <<"/", "a", "/", "a">>
DirASA == <<"/", "a", " ", "a">>
DirASSA == <<"/", "a", " ", " ", "a">>
DirUniverse == {DirA, DirAA, DirASA, DirASSA}

\* a regular file, always present
FileAA == <<"/", "a", "a">>

\* the path of a list of names below the root
PathOf(names) == <<"/">> \o StrJoin(<<"/">>, names)

\* the names of a normalized absolute path
NamesOf(path) == IF path = Root THEN <<>> ELSE StrSplit(Tail(path), "/", <<>>, <<>>)

\* the kernel's path walk: pos is the directory reached so far
RECURSIVE Walk(_, _, _)
Walk(comps, pos, dirs) ==
    IF comps = <<>> THEN TRUE
    ELSE LET comp == Head(comps) IN
         IF comp = <<>> \/ comp = <<".">> THEN Walk(Tail(comps), pos, dirs)
         ELSE IF comp = <<".", ".">>
         THEN Walk(Tail(comps),
                   IF pos = <<>> THEN pos ELSE SubSeq(pos, 1, Len(pos) - 1), dirs)
         ELSE /\ PathOf(Append(pos, comp)) \in dirs
              /\ Walk(Tail(comps), Append(pos, comp), dirs)

\* os.path.isdir(path) when the directories dirs exist and the process's
\* working directory is cwd
isdir(path, dirs, cwd) ==
    /\ path # <<>>
    /\ IF isabs(path)
       THEN Walk(StrSplit(path, "/", <<>>, <<>>), <<>>, dirs)
       ELSE /\ (cwd = Root \/ cwd \in dirs)
            /\ Walk(StrSplit(path, "/", <<>>, <<>>), NamesOf(cwd), dirs)

\* ------------------------------------------------------------------------
\* The inputs
\* ------------------------------------------------------------------------
\* the characters of the generated argument texts
Alphabet == {"a", " ", "/", ".", "\""}

\* every text over the alphabet of length at most MaxArgLen
ArgTexts == UNION {[1..n -> Alphabet] : n \in 0..MaxArgLen}

\* what a generated argument text is appended to
CommandPrefixes == {<<"c", "d", " ">>}

\* the characters of the generated texts without a verb
BareAlphabet == {"a", " ", "\""}

\* every such text of length at most MaxArgLen
BareTexts == UNION {[1..n -> BareAlphabet] : n \in 0..MaxArgLen}

\* command texts written out in full
CuratedCommands == {
    <<"c","d">>,   \* cd
    <<"C","D">>,   \* CD
    <<"C","d">>,   \* Cd
    <<"c","h","d","i","r">>,   \* chdir
    <<"C","h","D","i","r">>,   \* ChDir
    <<" ","c","d"," ">>,   \*  cd 
    <<"\t","c","d","\t">>,   \* <TAB>cd<TAB>
    <<"c","d","\n">>,   \* cd<LF>
    <<"c","d"," ",".",".">>,   \* cd ..
    <<"c","d"," ","/","a","/","a">>,   \* cd /a/a
    <<"c","d"," ","/","a","/",".",".">>,   \* cd /a/..
    <<"c","d"," ","/","a","/">>,   \* cd /a/
    <<"c","d"," ","a","/","a">>,   \* cd a/a
    <<"c","d"," ",".","/","a">>,   \* cd ./a
    <<"c","d"," ","/","a","/","a","/",".",".">>,   \* cd /a/a/..
    <<"c","h","d","i","r"," ","/","a">>,   \* chdir /a
    <<"C","D"," ","/","a">>,   \* CD /a
    <<"c","h","d","i","r"," ",".",".">>,   \* chdir ..
    <<"c","d"," ","/","a","a">>,   \* cd /aa
    <<"c","d"," ","a","a">>,   \* cd aa
    <<"c","d"," ","/","a","/","a","a">>,   \* cd /a/aa
    <<"c","d"," "," ","/","a">>,   \* cd  /a
    <<"c","d"," ","\"","a"," ","a","\"">>,   \* cd "a a"
    <<"c","d"," ","a"," ","a">>,   \* cd a a
    <<"c","d"," ","\"","a"," "," ","a","\"">>,   \* cd "a  a"
    <<"c","d"," ","a"," "," ","a">>,   \* cd a  a
    <<"c","d"," ","'","a"," ","a","'">>,   \* cd 'a a'
    <<"c","d"," ","\"","\"","a","\"","\"">>,   \* cd ""a""
    <<"c","d"," ","\"","'","a","'","\"">>,   \* cd "'a'"
    <<".",".">>,   \* ..
    <<"/","a">>,   \* /a
    <<"c","d"," ","\"","a">>,   \* cd "a
    <<"c","d"," ","'","a">>,   \* cd 'a
    <<"'">>,   \* '
    <<"c","d"," ","a","'">>,   \* cd a'
    <<"c","d"," ","'","'">>,   \* cd ''
    <<"c","d"," ","\"","/","a","\"">>,   \* cd "/a"
    <<"c","d"," ","\"","/","a"," ","a","\"">>,   \* cd "/a a"
    <<"c","d"," ","/","a"," ","a">>,   \* cd /a a
    <<"p","u","s","h","d">>,   \* pushd
    <<"p","u","s","h","d"," ","/","a">>,   \* pushd /a
    <<"p","o","p","d">>,   \* popd
    <<"P","O","P","D">>,   \* POPD
    <<"P","u","s","h","D"," ","a">>,   \* PushD a
    <<"e","x","i","t">>,   \* exit
    <<"q","u","i","t">>,   \* quit
    <<"E","X","I","T">>,   \* EXIT
    <<" ","e","x","i","t"," ">>,   \*  exit 
    <<"e","x","i","t"," ","1">>,   \* exit 1
    <<"Q","u","i","t">>,   \* Quit
    <<"e","c","h","o"," ","a">>,   \* echo a
    <<"e","c","h","o"," ","\"","a">>,   \* echo "a
    <<"l","s">>,   \* ls
    <<>>,   \* 
    <<" "," ">>,   \* '  '
    <<"c","d",".",".">>,   \* cd..
    <<"c","d","/","a">>,   \* cd/a
    <<"r","m"," ","-","r","f"," ","/">>,   \* rm -rf /
    <<"R","M"," ","-","R","F"," ","/">>,   \* RM -RF /
    <<"r","m"," "," ","-","r","f"," "," ","\\">>,   \* rm  -rf  \
    <<"r","m"," ","-","r","f"," ","/","a">>,   \* rm -rf /a
    <<"s","u","d","o"," ","r","m","\t","-","r","f"," ","/">>,   \* sudo rm<TAB>-rf /
    <<"f","o","r","m","a","t"," ","c",":">>,   \* format c:
    <<"F","O","R","M","A","T"," "," ","D",":">>,   \* FORMAT  D:
    <<"f","o","r","m","a","t">>,   \* format
    <<"e","c","h","o"," ","i","n","f","o","r","m","a","t","i","o","n">>,   \* echo information
    <<"c","d"," ","f","o","r","m","a","t">>,   \* cd format
    <<"c","d"," ","/","f","o","r","m","a","t">>,   \* cd /format
    <<"c","d"," ","\"","r","m"," ","-","r","f"," ","/">>,   \* cd "rm -rf /
    <<"c","d"," ","/","a",";","r","m"," ","-","r","f"," ","/">>,   \* cd /a;rm -rf /
    <<"d","e","l"," ","/","f"," ","/","s"," ","/","q">>,   \* del /f /s /q
    <<"D","E","L"," ","/","F"," ","/","S"," ","/","Q"," ","a">>,   \* DEL /F /S /Q a
    <<"d","e","l"," ","/","f","q"," ","/">>,   \* del /fq /
    <<"d","e","l"," "," ","/","s"," ","\\">>,   \* del  /s \
    <<"r","m","d","i","r"," ","/","s"," ","/","q"," ","c",":">>,   \* rmdir /s /q c:
    <<"R","M","D","I","R"," ","/","S"," ","/","Q"," ","C",":">>,   \* RMDIR /S /Q C:
    <<"r","m","d","i","r"," "," ","/","s"," "," ","/","q"," "," ","d",":">>,   \* rmdir  /s  /q  d:
    <<"e","x","i","t",";"," ","r","m"," ","-","r","f"," ","/">>,   \* exit; rm -rf /
    <<"p","u","s","h","d"," ","r","m"," ","-","r","f"," ","/">>,   \* pushd rm -rf /
    <<"r","m"," ","-","r","f"," ","a">>,   \* rm -rf a
    <<"r","m"," ","-","r"," ","/">>,   \* rm -r /
    <<"d","e","l"," ","/","f"," ","a">>,   \* del /f a
    <<"r","m","d","i","r"," ","/","s"," ","/","q"," ","a",":">>,   \* rmdir /s /q a:
    <<"d","e","l"," ","/","x"," ","/">>,   \* del /x /
    <<"r","m","-","r","f"," ","/">>   \* rm-rf /
}

\* the command strings a caller may pass
Commands ==
    {p \o a : p \in CommandPrefixes, a \in ArgTexts} \cup BareTexts \cup CuratedCommands

\* ------------------------------------------------------------------------
\* CommandExecutor
\* ------------------------------------------------------------------------
\* the list without the directory-stack verbs
DIRECTORY_COMMANDS_NoStack == {<<"c","d">>, <<"c","h","d","i","r">>}

\* line 15
DIRECTORY_COMMANDS == {<<"c","d">>, <<"c","h","d","i","r">>,
                       <<"p","u","s","h","d">>, <<"p","o","p","d">>}

\* the list without its 'format' entry
BLOCKED_COMMANDS_NoFormat == {<<"r","m"," ","-","r","f"," ","/">>,
                              <<"r","m","d","i","r"," ","/","s"," ","/","q"," ","c",":">>,
                              <<"d","e","l"," ","/","f"," ","/","s"," ","/","q">>}

BLOCKED_COMMANDS == {<<"r","m"," ","-","r","f"," ","/">>,
                     <<"r","m","d","i","r"," ","/","s"," ","/","q"," ","c",":">>,
                     <<"f","o","r","m","a","t">>,
                     <<"d","e","l"," ","/","f"," ","/","s"," ","/","q">>}

\* the literal-substring loop of _is_dangerous_command
BlockedLiteral(command_lower) ==
    \E blocked \in BLOCKED_COMMANDS : StrContains(command_lower, blocked)

\* the danger_patterns loop of _is_dangerous_command
DangerPattern(command_lower) ==
    \/ MatchRm(command_lower)
    \/ MatchRmdir(command_lower)
    \/ MatchFormat(command_lower)
    \/ MatchDel(command_lower)

\* the safety check with the lowering of the command forgotten
_is_dangerous_command_CaseSensitive(command) ==
    BlockedLiteral(command) \/ DangerPattern(command)

_is_dangerous_command(command) ==
    LET command_lower == StrLower(command) IN
    BlockedLiteral(command_lower) \/ DangerPattern(command_lower)

\* the variant that looks for the verb at the start of the text
_is_directory_command_Prefix(command) ==
    LET cmd_parts == shlex_split(command) IN
    IF ~cmd_parts.ok THEN "raise"
    ELSE IF cmd_parts.parts = <<>> THEN "false"
    ELSE IF \E verb \in DIRECTORY_COMMANDS : StartsWith(StrLower(cmd_parts.parts[1]), verb)
         THEN "true"
    ELSE "false"

\* "raise" when shlex.split raises, else the boolean the method returns
_is_directory_command(command) ==
    LET cmd_parts == shlex_split(command) IN
    IF ~cmd_parts.ok THEN "raise"
    ELSE IF cmd_parts.parts = <<>> THEN "false"
    ELSE IF StrLower(cmd_parts.parts[1]) \in DIRECTORY_COMMANDS THEN "true"
    ELSE "false"

\* a message: fixed text, then a variable text, then fixed text
Message(prefix, text, suffix) == [prefix |-> prefix, text |-> text, suffix |-> suffix]

\* a returned (output, success, new_directory) tuple; branch and spawned
\* record the path taken through execute_command
Outcome(output, success, new_directory, branch, spawned) ==
    [raised |-> FALSE, output |-> output, success |-> success,
     new_directory |-> new_directory, branch |-> branch, spawned |-> spawned]

\* the call left execute_command by an exception instead of a return
Raised(branch) ==
    [raised |-> TRUE, output |-> Message("", <<>>, ""), success |-> FALSE,
     new_directory |-> None, branch |-> branch, spawned |-> FALSE]

\* the target with the quotes left in the path
DirectoryTarget_NoStrip(cmd_parts) == StrJoin(<<" ">>, Tail(cmd_parts))

\* cmd_parts[1:] joined by spaces, surrounding quote characters stripped
DirectoryTarget(cmd_parts) ==
    StrStrip(StrJoin(<<" ">>, Tail(cmd_parts)), {"\"", "'"})

\* the resolution with the absolute case normalized like the relative one
ResolveTarget_AlwaysNormalized(target, current_directory) ==
    normpath(join(current_directory, target))

\* the resolution with the join against the current directory forgotten
ResolveTarget_NoJoin(target, current_directory) ==
    IF isabs(target) THEN target ELSE normpath(target)

\* the path the handler tests and returns
ResolveTarget(target, current_directory) ==
    IF isabs(target) THEN target
    ELSE normpath(join(current_directory, target))

\* the handler with one slip: "keeps_path" returns the resolved path with
\* the failure, "names_resolved" puts the resolved path in the failure
\* message, "reports_process_cwd" answers the bare verb with os.getcwd()
DirectoryHandlerWithSlip(command, current_directory, dirs, cwd, slip) ==
    LET cmd_parts == shlex_split(command).parts
        base_cmd == StrLower(cmd_parts[1])
    IN
    IF base_cmd = <<"c","d">> \/ base_cmd = <<"c","h","d","i","r">>
    THEN IF Len(cmd_parts) = 1
         THEN Outcome(Message("", IF slip = "reports_process_cwd" THEN cwd
                                  ELSE current_directory, ""),
                      TRUE, None, "directory", FALSE)
         ELSE LET target == DirectoryTarget(cmd_parts)
                  new_dir == ResolveTarget(target, current_directory)
              IN IF isdir(new_dir, dirs, cwd)
                 THEN Outcome(Message("Changed directory to: ", new_dir, ""),
                              TRUE, new_dir, "directory", FALSE)
                 ELSE Outcome(Message("The system cannot find the path specified: ",
                                      IF slip = "names_resolved" THEN new_dir
                                      ELSE target, ""),
                              FALSE,
                              IF slip = "keeps_path" THEN new_dir ELSE None,
                              "directory", FALSE)
    ELSE Outcome(Message("Command ", base_cmd, " not fully implemented."),
                 FALSE, None, "directory", FALSE)

_handle_directory_command_KeepsPath(command, current_directory, dirs, cwd) ==
    DirectoryHandlerWithSlip(command, current_directory, dirs, cwd, "keeps_path")

_handle_directory_command_NamesResolved(command, current_directory, dirs, cwd) ==
    DirectoryHandlerWithSlip(command, current_directory, dirs, cwd, "names_resolved")

_handle_directory_command_ReportsProcessCwd(command, current_directory, dirs, cwd) ==
    DirectoryHandlerWithSlip(command, current_directory, dirs, cwd, "reports_process_cwd")

_handle_directory_command(command, current_directory, dirs, cwd) ==
    LET cmd_parts == shlex_split(command).parts
        base_cmd == StrLower(cmd_parts[1])
    IN
    IF base_cmd = <<"c","d">> \/ base_cmd = <<"c","h","d","i","r">>
    THEN IF Len(cmd_parts) = 1
         THEN Outcome(Message("", current_directory, ""), TRUE, None, "directory", FALSE)
         ELSE LET target == DirectoryTarget(cmd_parts)
                  new_dir == ResolveTarget(target, current_directory)
              IN IF isdir(new_dir, dirs, cwd)
                 THEN Outcome(Message("Changed directory to: ", new_dir, ""),
                              TRUE, new_dir, "directory", FALSE)
                 ELSE Outcome(Message("The system cannot find the path specified: ",
                                      target, ""),
                              FALSE, None, "directory", FALSE)
    ELSE Outcome(Message("Command ", base_cmd, " not fully implemented."),
                 FALSE, None, "directory", FALSE)

\* a byte that the locale's codec does not decode
BadByte == "0xFF"

\* what a child writes to a pipe: bytes, one per element
SomeOutput == <<" ", "a", "\r", "\n">>
HostStreams == {<<>>, SomeOutput, <<BadByte>>}

\* what the host can answer to Popen + communicate(timeout=30): the child
\* exits with a return code, or is still running when the timeout expires
\* (stdout is then what it wrote so far), or cannot be launched.  With exit
\* code 0 the standard output varies, with exit code 1 the standard error
HostResults ==
    [kind : {"exit"}, returncode : {0}, stdout : HostStreams, stderr : {SomeOutput}]
    \cup [kind : {"exit"}, returncode : {1}, stdout : {SomeOutput}, stderr : HostStreams]
    \cup [kind : {"timeout"}, returncode : {0}, stdout : {SomeOutput}, stderr : {<<>>}]
    \cup [kind : {"launchfail"}, returncode : {0}, stdout : {<<>>}, stderr : {<<>>}]

\* the pipe of text=True decodes the bytes (UnicodeDecodeError otherwise)
Decodable(bytes) == \A i \in 1..Len(bytes) : bytes[i] # BadByte

\* and translates the line ends \r\n and \r to \n
RECURSIVE TranslateNewlines(_)
TranslateNewlines(text) ==
    IF text = <<>> THEN <<>>
    ELSE IF Head(text) = "\r"
    THEN IF Len(text) > 1 /\ text[2] = "\n"
         THEN <<"\n">> \o TranslateNewlines(Tail(Tail(text)))
         ELSE <<"\n">> \o TranslateNewlines(Tail(text))
    ELSE <<Head(text)>> \o TranslateNewlines(Tail(text))

\* HostExecution with the timeout answering what the child wrote so far
HostExecution_PartialOutput(command, current_directory, dirs, cwd, host) ==
    IF host.kind = "launchfail" \/ ~isdir(current_directory, dirs, cwd)
    THEN Outcome(Message("Failed to execute command: ", <<>>, ""),
                 FALSE, None, "host", FALSE)
    ELSE IF host.kind = "timeout"
    THEN Outcome(Message("Command timed out after 30 seconds",
                         StrStrip(TranslateNewlines(host.stdout), PyWhitespace), ""),
                 FALSE, None, "host", TRUE)
    ELSE IF ~Decodable(host.stdout) \/ ~Decodable(host.stderr)
    THEN Outcome(Message("Failed to execute command: ", <<>>, ""),
                 FALSE, None, "host", TRUE)
    ELSE IF host.returncode = 0
    THEN Outcome(Message("", StrStrip(TranslateNewlines(host.stdout), PyWhitespace), ""),
                 TRUE, None, "host", TRUE)
    ELSE Outcome(Message("Error: ", StrStrip(TranslateNewlines(host.stderr), PyWhitespace), ""),
                 FALSE, None, "host", TRUE)

\* HostExecution without the handler of line 74
HostExecution_Uncaught(command, current_directory, dirs, cwd, host) ==
    IF host.kind = "launchfail" \/ ~isdir(current_directory, dirs, cwd)
    THEN Raised("host")
    ELSE IF host.kind = "timeout"
    THEN Outcome(Message("Command timed out after 30 seconds", <<>>, ""),
                 FALSE, None, "host", TRUE)
    ELSE IF ~Decodable(host.stdout) \/ ~Decodable(host.stderr)
    THEN Raised("host")
    ELSE IF host.returncode = 0
    THEN Outcome(Message("", StrStrip(TranslateNewlines(host.stdout), PyWhitespace), ""),
                 TRUE, None, "host", TRUE)
    ELSE Outcome(Message("Error: ", StrStrip(TranslateNewlines(host.stderr), PyWhitespace), ""),
                 FALSE, None, "host", TRUE)

\* lines 54-75.  Popen raises when cwd is no directory or the shell cannot
\* be started; communicate raises TimeoutExpired after 30 seconds, or
\* UnicodeDecodeError when it decodes what the child wrote; the handlers of
\* lines 72 and 74 turn each into a tuple
HostExecution(command, current_directory, dirs, cwd, host) ==
    IF host.kind = "launchfail" \/ ~isdir(current_directory, dirs, cwd)
    THEN Outcome(Message("Failed to execute command: ", <<>>, ""),
                 FALSE, None, "host", FALSE)
    ELSE IF host.kind = "timeout"
    THEN Outcome(Message("Command timed out after 30 seconds", <<>>, ""),
                 FALSE, None, "host", TRUE)
    ELSE IF ~Decodable(host.stdout) \/ ~Decodable(host.stderr)
    THEN Outcome(Message("Failed to execute command: ", <<>>, ""),
                 FALSE, None, "host", TRUE)
    ELSE IF host.returncode = 0
    THEN Outcome(Message("", StrStrip(TranslateNewlines(host.stdout), PyWhitespace), ""),
                 TRUE, None, "host", TRUE)
    ELSE Outcome(Message("Error: ", StrStrip(TranslateNewlines(host.stderr), PyWhitespace), ""),
                 FALSE, None, "host", TRUE)

\* the exit check as a test of how the command starts
IsExitCommand_StartsWith(command) ==
    \/ StartsWith(StrLower(StrStrip(command, PyWhitespace)), <<"e","x","i","t">>)
    \/ StartsWith(StrLower(StrStrip(command, PyWhitespace)), <<"q","u","i","t">>)

\* line 50: command.strip().lower() in ['exit', 'quit']
IsExitCommand(command) ==
    StrLower(StrStrip(command, PyWhitespace))
        \in {<<"e","x","i","t">>, <<"q","u","i","t">>}

\* execute_command with the directory check moved before the safety check
execute_command_DirectoryFirst(command, current_directory, dirs, cwd, host) ==
    LET is_dir == _is_directory_command(command) IN
    IF is_dir = "raise" THEN Raised("classify")
    ELSE IF is_dir = "true"
    THEN _handle_directory_command(command, current_directory, dirs, cwd)
    ELSE IF _is_dangerous_command(command)
    THEN Outcome(Message("Command blocked for safety reasons. Please use a less destructive alternative.",
                         <<>>, ""),
                 FALSE, None, "blocked", FALSE)
    ELSE IF IsExitCommand(command)
    THEN Outcome(Message("Use the window close button to exit the application.",
                         <<>>, ""),
                 TRUE, None, "exit", FALSE)
    ELSE HostExecution(command, current_directory, dirs, cwd, host)

execute_command(command, current_directory, dirs, cwd, host) ==
    IF _is_dangerous_command(command)
    THEN Outcome(Message("Command blocked for safety reasons. Please use a less destructive alternative.",
                         <<>>, ""),
                 FALSE, None, "blocked", FALSE)
    ELSE LET is_dir == _is_directory_command(command) IN
         IF is_dir = "raise" THEN Raised("classify")
         ELSE IF is_dir = "true"
         THEN _handle_directory_command(command, current_directory, dirs, cwd)
         ELSE IF IsExitCommand(command)
         THEN Outcome(Message("Use the window close button to exit the application.",
                              <<>>, ""),
                      TRUE, None, "exit", FALSE)
         ELSE HostExecution(command, current_directory, dirs, cwd, host)

\* ------------------------------------------------------------------------
\* MainWindow and the callers of the gate
\* ------------------------------------------------------------------------
\* longest list of commands the AI client returns
MaxAiCommands == 2

\* the commands the AI client answers with
AiCommandPool == {
    <<"c","d"," ",".",".">>,
    <<"c","d"," ","a">>,
    <<"r","m"," ","-","r","f"," ","/">>,
    <<"e","c","h","o"," ","\"","a">>,
    <<"l","s">>
}

AiLists == UNION {[1..n -> AiCommandPool] : n \in 1..MaxAiCommands}

\* ------------------------------------------------------------------------
\* LlamaClient
\* ------------------------------------------------------------------------
\* the grave accent (U+0060), written by name
GraveAccent == "GRAVE"

\* the marker of a markdown code block
Fence == <<GraveAccent, GraveAccent, GraveAccent>>

\* contents of the answering message that are not a plain list of commands:
\* empty, blank, fenced, commented, padded
OtherContents == {
    <<>>,
    <<" ">>,
    Fence,
    Fence \o <<"\n","l","s","\n">> \o Fence,
    Fence \o <<"c","m","d","\n","c","d"," ","a","\n">> \o Fence,
    <<"#"," ","x","\n","l","s">>,
    <<"/","/"," ","x">>,
    <<"l","s","\n">> \o Fence \o <<"x">>,
    <<" ","l","s"," ","\n","\n"," ","c","d"," ","a","\n">>
}

\* what the model writes: one command per line
ApiContents == {StrJoin(<<"\n">>, list) : list \in AiLists} \cup OtherContents

\* what requests.post and the service answer: status 200 with a message
\* content, status 200 without choices or without content, another status,
\* or an exception of the transport
ApiAnswers ==
    [kind : {"ok"}, content : ApiContents]
    \cup [kind : {"no_choices", "no_content", "status", "transport"}, content : {<<>>}]

\* what a method of the client gives back: a str, or an exception
TextResult(raised, text) == [raised |-> raised, text |-> text]

\* what get_command gives back: a list, None (absent), or an exception
CommandsResult(raised, absent, commands) ==
    [raised |-> raised, absent |-> absent, commands |-> commands]

\* lines 114-136: the content, stripped, of a 200 answer that has choices
\* and a content; everything else raises
_make_api_request(answer) ==
    IF answer.kind = "ok"
    THEN TextResult(FALSE, StrStrip(answer.content, PyWhitespace))
    ELSE TextResult(TRUE, <<>>)

\* lines 157-162: the lines, stripped, that are not empty and are no comment
RECURSIVE FilterCommands(_)
FilterCommands(lines) ==
    IF lines = <<>> THEN <<>>
    ELSE LET line == StrStrip(Head(lines), PyWhitespace) IN
         IF line # <<>> /\ ~StartsWith(line, <<"#">>) /\ ~StartsWith(line, <<"/","/">>)
         THEN <<line>> \o FilterCommands(Tail(lines))
         ELSE FilterCommands(Tail(lines))

\* _extract_commands keeping the lines that are comments
_extract_commands_KeepsComments(response_text) ==
    LET lines == StrSplit(StrStrip(response_text, PyWhitespace), "\n", <<>>, <<>>)
        unfenced == IF lines # <<>> /\ StartsWith(lines[1], Fence) THEN Tail(lines) ELSE lines
        body == IF unfenced # <<>> /\ unfenced[Len(unfenced)] = Fence
                THEN SubSeq(unfenced, 1, Len(unfenced) - 1)
                ELSE unfenced
    IN  SelectSeq([i \in 1..Len(body) |-> StrStrip(body[i], PyWhitespace)],
                  LAMBDA line : line # <<>>)

\* lines 149-164
_extract_commands(response_text) ==
    LET lines == StrSplit(StrStrip(response_text, PyWhitespace), "\n", <<>>, <<>>)
        unfenced == IF lines # <<>> /\ StartsWith(lines[1], Fence) THEN Tail(lines) ELSE lines
        body == IF unfenced # <<>> /\ unfenced[Len(unfenced)] = Fence
                THEN SubSeq(unfenced, 1, Len(unfenced) - 1)
                ELSE unfenced
    IN  FilterCommands(body)

\* get_command with a handler that turns a failed request into None
get_command_ReturnsNone(natural_language_query, current_directory, answer) ==
    LET response == _make_api_request(answer) IN
    IF response.raised THEN CommandsResult(FALSE, TRUE, <<>>)
    ELSE IF response.text = <<>> THEN CommandsResult(FALSE, TRUE, <<>>)
    ELSE CommandsResult(FALSE, FALSE, _extract_commands(response.text))

\* lines 36-57: the exception of _make_api_request passes through
get_command(natural_language_query, current_directory, answer) ==
    LET response == _make_api_request(answer) IN
    IF response.raised THEN CommandsResult(TRUE, FALSE, <<>>)
    ELSE IF response.text = <<>> THEN CommandsResult(FALSE, TRUE, <<>>)
    ELSE CommandsResult(FALSE, FALSE, _extract_commands(response.text))

\* ------------------------------------------------------------------------
\* ElevenLabsClient and AudioRecorderThread
\* ------------------------------------------------------------------------
\* most chunks the thread keeps
MaxFrames == 2

\* most emissions of recording_finished that wait to be delivered
MaxPending == 2

\* one chunk read from the stream
Chunk == "chunk"

\* lines 69-99: no bytes for no frames, else the WAV header and the frames
_frames_to_wav(frames) == IF frames = <<>> THEN <<>> ELSE <<"RIFF">> \o frames

\* the audio_data arguments: None, b'' and recordings
AudioData == {None, <<>>} \cup {_frames_to_wav([i \in 1..n |-> Chunk]) : n \in 1..MaxFrames}

\* what the transcript says
Transcript == <<"g","o"," ","u","p">>

\* what requests.post and the service answer to the upload: status 200 with
\* a text (empty for silence), status 200 without a text, status 200 with a
\* body that is no JSON, another status, or an exception of the transport
SttAnswers ==
    [kind : {"ok"}, text : {<<>>, Transcript}]
    \cup [kind : {"no_text", "bad_json", "status", "transport"}, text : {<<>>}]

\* what speech_to_text gives back: a str or an exception, and whether
\* requests.post was called
SttResult(raised, text, requested) ==
    [raised |-> raised, text |-> text, requested |-> requested]

\* speech_to_text with the validation after the upload
speech_to_text_UploadsFirst(audio_data, answer) ==
    IF answer.kind = "transport" THEN SttResult(TRUE, <<>>, TRUE)
    ELSE IF audio_data = None \/ Len(audio_data) = 0 THEN SttResult(TRUE, <<>>, TRUE)
    ELSE IF answer.kind = "ok" THEN SttResult(FALSE, answer.text, TRUE)
    ELSE IF answer.kind = "no_text" THEN SttResult(FALSE, <<>>, TRUE)
    ELSE SttResult(TRUE, <<>>, TRUE)

\* lines 44-82: every exception, the ValueError of line 47 included, leaves
\* as the Exception of line 82
speech_to_text(audio_data, answer) ==
    IF audio_data = None \/ Len(audio_data) = 0 THEN SttResult(TRUE, <<>>, FALSE)
    ELSE IF answer.kind = "transport" THEN SttResult(TRUE, <<>>, TRUE)
    ELSE IF answer.kind = "ok" THEN SttResult(FALSE, answer.text, TRUE)
    ELSE IF answer.kind = "no_text" THEN SttResult(FALSE, <<>>, TRUE)
    ELSE SttResult(TRUE, <<>>, TRUE)

\* speech_to_text is not being called
NoSttCall == [audio |-> None, answer |-> [kind |-> "none", text |-> <<>>],
              result |-> SttResult(FALSE, <<>>, FALSE)]

\* no AudioRecorderThread has been created
NoThread == [pc |-> "none", _running |-> FALSE, frames |-> <<>>]

\* lines 14-21 and 116: a new thread, started
StartedThread == [pc |-> "started", _running |-> FALSE, frames |-> <<>>]

\* QThread.isRunning()
isRunning(thread) == thread.pc \notin {"none", "finished"}

\* the current_directory arguments of a caller other than MainWindow
DirectDirectories == {Root, DirA, DirAA, <<"/", "a", "/">>, DirASA}

\* the working directories the process can be started in
InitialDirectories == {DirA}

VARIABLES
    current_directory,  \* MainWindow.current_directory
    process_cwd,        \* os.getcwd(): the working directory of the process
    fs,                 \* the directories of DirUniverse that exist
    pc,                 \* "idle", "communicate" (execute_command waits for
                        \* its child), "returned" (execute_command has
                        \* returned into its caller), "echo" and "display"
                        \* (_append_to_terminal shows the command, the
                        \* result), "ai_returned"
                        \* (get_command has been left), "ai_loop",
                        \* "aborted", "wait" and "wait_start" (the window
                        \* waits in recorder_thread.wait()), "stt_returned"
                        \* or "stt_direct" (speech_to_text has been left)
    source,             \* who called: "typed", "ai" or "direct"
    command,            \* the command argument of the call
    call_directory,     \* the current_directory argument of the call
    outcome,            \* what execute_command returned or raised
    host_result,        \* what Popen and communicate answered to the call
    ai_commands,        \* the rest of the list _process_with_ai iterates
    ai_call,            \* what the service answered to get_command and what
                        \* get_command gave back
    existed_when_set,   \* history: current_directory was a directory when
                        \* it was last assigned
    stack,              \* the handlers that wait inside processEvents
                        \* (line 499) for a handler it dispatched, innermost
                        \* first
    orphaned,           \* a child that communicate gave up waiting for is
                        \* still running
    current_dir_label,  \* the text of the header label current_dir_label
    ai_mode,            \* ai_button.isChecked()
    voice_visible,      \* voice_button is shown
    llama_client,       \* MainWindow.llama_client has been created
    is_recording,       \* MainWindow.is_recording
    recorder_thread,    \* AudioRecorder.recorder_thread: where run() stands,
                        \* _running and frames
    pending,            \* the emissions of recording_finished that wait in
                        \* the event queue of the window, oldest first
    stt_call            \* what speech_to_text was called with, what the
                        \* service answered and what it gave back

vars == <<current_directory, process_cwd, fs, pc, source, command,
          call_directory, outcome, host_result, ai_commands, ai_call,
          existed_when_set, stack, orphaned, current_dir_label,
          ai_mode, voice_visible, llama_client, is_recording, recorder_thread,
          pending, stt_call>>

\* the state of AI mode and of the voice input
voice_vars == <<ai_mode, voice_visible, llama_client, is_recording, recorder_thread,
                pending, stt_call>>

NoOutcome == Outcome(Message("", <<>>, ""), FALSE, None, "none", FALSE)

\* the host was not asked
NoHost == [kind |-> "none", returncode |-> 0, stdout |-> <<>>, stderr |-> <<>>]

\* get_command is not being called
NoAiCall == [answer |-> [kind |-> "none", content |-> <<>>],
             result |-> CommandsResult(FALSE, TRUE, <<>>)]

LaunchFailure == [kind |-> "launchfail", returncode |-> 0, stdout |-> <<>>, stderr |-> <<>>]

Init ==
    /\ process_cwd \in InitialDirectories
    /\ current_directory = process_cwd
    /\ fs = {DirA, DirAA, DirASA, DirASSA}
    /\ pc = "idle"
    /\ source = "none"
    /\ command = <<>>
    /\ call_directory = <<>>
    /\ outcome = NoOutcome
    /\ host_result = NoHost
    /\ ai_commands = <<>>
    /\ ai_call = NoAiCall
    /\ existed_when_set = TRUE
    /\ stack = <<>>
    /\ orphaned = FALSE
    /\ current_dir_label = process_cwd
    /\ ai_mode = FALSE
    /\ voice_visible = FALSE
    /\ llama_client = FALSE
    /\ is_recording = FALSE
    /\ recorder_thread = NoThread
    /\ pending = <<>>
    /\ stt_call = NoSttCall

\* the update with its condition forgotten
UpdatedDirectory_Unconditional(new_directory, current) == new_directory

\* lines 530-531: the value of self.current_directory after the update
UpdatedDirectory(new_directory, current) ==
    IF new_directory # None /\ new_directory # <<>> /\ new_directory # current
    THEN new_directory
    ELSE current

\* the command gets as far as Popen (lines 38, 46 and 50 all fall through)
ReachesHost(cmd) ==
    /\ ~_is_dangerous_command(cmd)
    /\ _is_directory_command(cmd) = "false"
    /\ ~IsExitCommand(cmd)

\* execute_command with the directory handler changing the directory of
\* the process as well
ProcessCwdAfterCall_Chdir(cmd, dir, dirs, cwd) ==
    LET result == execute_command(cmd, dir, dirs, cwd, NoHost) IN
    IF ~ReachesHost(cmd) /\ ~result.raised /\ result.new_directory # None
    THEN result.new_directory
    ELSE cwd

\* os.getcwd() after the call: executor.py holds no os.chdir, so the
\* directory of the process is the one it was before
ProcessCwdAfterCall(cmd, dir, dirs, cwd) == cwd

\* line 527, for whichever caller: execute_command runs up to its return
\* or, when Popen has started a child, up to communicate (line 65)
Call(src, cmd, dir) ==
    /\ source' = src
    /\ command' = cmd
    /\ call_directory' = dir
    /\ process_cwd' = ProcessCwdAfterCall(cmd, dir, fs, process_cwd)
    /\ \/ /\ ~ReachesHost(cmd)
          /\ outcome' = execute_command(cmd, dir, fs, process_cwd, NoHost)
          /\ host_result' = NoHost
          /\ pc' = "returned"
       \/ /\ ReachesHost(cmd)
          /\ outcome' = execute_command(cmd, dir, fs, process_cwd, LaunchFailure)
          /\ host_result' = LaunchFailure
          /\ pc' = "returned"
       \/ /\ ReachesHost(cmd)
          /\ isdir(dir, fs, process_cwd)
          /\ outcome' = NoOutcome
          /\ host_result' = NoHost
          /\ pc' = "communicate"

\* the handler of TimeoutExpired with a process.kill() in it
ChildAfterTimeout_Killed == "killed"

\* lines 72-73: the handler of TimeoutExpired returns the message; the child
\* is not killed and not waited for, and nothing keeps the Popen object
ChildAfterTimeout == "running"

\* communicate(timeout=30) ends with what the host answered (lines 65-75)
Communicated(host) ==
    /\ pc = "communicate"
    /\ outcome' = execute_command(command, call_directory, fs, process_cwd, host)
    /\ host_result' = host
    /\ orphaned' = IF host.kind = "timeout"
                   THEN orphaned \/ ChildAfterTimeout = "running"
                   ELSE orphaned
    /\ pc' = "returned"
    /\ UNCHANGED <<current_directory, process_cwd, fs, source, command,
                   call_directory, ai_commands, existed_when_set, ai_call, stack,
                   current_dir_label, voice_vars>>

\* the child exits within the 30 seconds
ChildExits == \E host \in HostResults : host.kind = "exit" /\ Communicated(host)

\* the 30 seconds pass with the child still running (line 72)
CommunicateTimeout == \E host \in HostResults : host.kind = "timeout" /\ Communicated(host)

\* _on_command_entered in command mode, up to the return of execute_command
\* (lines 502-527); empty input returns at line 506
OnCommandEntered(text) ==
    /\ pc = "idle"
    /\ StrStrip(text, PyWhitespace) # <<>>
    /\ Call("typed", StrStrip(text, PyWhitespace), current_directory)
    /\ UNCHANGED <<current_directory, fs, ai_commands, existed_when_set, ai_call, stack,
                   orphaned, current_dir_label, voice_vars>>

\* the text that is handed to the AI client
Query == <<"a">>

\* _process_with_ai up to the return of get_command (lines 583-590); the
\* caller is _on_command_entered in AI mode or _process_voice_input
ProcessWithAi(answer) ==
    /\ pc = "idle"
    /\ ai_call' = [answer |-> answer,
                   result |-> get_command(Query, current_directory, answer)]
    /\ pc' = "ai_returned"
    /\ UNCHANGED <<current_directory, process_cwd, fs, source, command,
                   call_directory, outcome, host_result, ai_commands, existed_when_set, stack,
                   orphaned, current_dir_label, voice_vars>>

\* get_command has raised: the handler of lines 604-605 shows the error
AiError ==
    /\ pc = "ai_returned"
    /\ ai_call.result.raised
    /\ ai_call' = NoAiCall
    /\ pc' = "idle"
    /\ UNCHANGED <<current_directory, process_cwd, fs, source, command,
                   call_directory, outcome, host_result, ai_commands, existed_when_set, stack,
                   orphaned, current_dir_label, voice_vars>>

\* get_command has returned None or an empty list (lines 592-594)
AiNothing ==
    /\ pc = "ai_returned"
    /\ ~ai_call.result.raised
    /\ ai_call.result.absent \/ ai_call.result.commands = <<>>
    /\ ai_call' = NoAiCall
    /\ pc' = "idle"
    /\ UNCHANGED <<current_directory, process_cwd, fs, source, command,
                   call_directory, outcome, host_result, ai_commands, existed_when_set, stack,
                   orphaned, current_dir_label, voice_vars>>

\* get_command has returned commands: the loop begins (lines 597-599)
AiSuggests ==
    /\ pc = "ai_returned"
    /\ ~ai_call.result.raised
    /\ ~ai_call.result.absent
    /\ ai_call.result.commands # <<>>
    /\ ai_commands' = ai_call.result.commands
    /\ ai_call' = NoAiCall
    /\ pc' = "ai_loop"
    /\ UNCHANGED <<current_directory, process_cwd, fs, source, command,
                   call_directory, outcome, host_result, existed_when_set, stack,
                   orphaned, current_dir_label, voice_vars>>

\* one iteration of the loop of lines 599-602, up to the return of
\* execute_command
AiExecute ==
    /\ pc = "ai_loop"
    /\ ai_commands # <<>>
    /\ Call("ai", Head(ai_commands), current_directory)
    /\ ai_commands' = Tail(ai_commands)
    /\ UNCHANGED <<current_directory, fs, existed_when_set, ai_call, stack,
                   orphaned, current_dir_label, voice_vars>>

\* the loop of lines 599-602 is exhausted
AiDone ==
    /\ pc = "ai_loop"
    /\ ai_commands = <<>>
    /\ pc' = "idle"
    /\ UNCHANGED <<current_directory, process_cwd, fs, source, command,
                   call_directory, outcome, host_result, ai_commands, existed_when_set, ai_call, stack,
                   orphaned, current_dir_label, voice_vars>>

\* a caller that holds its own directory, as the test-suite does, in a
\* process whose window has not changed directory
DirectCall(cmd, dir) ==
    /\ pc = "idle"
    /\ current_directory = process_cwd
    /\ Call("direct", cmd, dir)
    /\ UNCHANGED <<current_directory, fs, ai_commands, existed_when_set, ai_call, stack,
                   orphaned, current_dir_label, voice_vars>>

\* lines 535-547: a failure is always shown, a success when its result is
\* not the empty string
ShowsOutput(result) ==
    ~result.success \/ result.output # Message("", <<>>, "")

\* the rest of _execute_command (lines 530-549) and the return to the event
\* loop or to the loop of _process_with_ai; line 532 sets the label to
\* os.getcwd()
ExecuteReturn ==
    /\ pc = "returned"
    /\ ~outcome.raised
    /\ source \in {"typed", "ai"}
    /\ current_directory' = UpdatedDirectory(outcome.new_directory, current_directory)
    /\ existed_when_set' =
           IF current_directory' # current_directory
           THEN isdir(current_directory', fs, process_cwd)
           ELSE existed_when_set
    /\ pc' = IF source = "ai" THEN "ai_loop"
             ELSE IF ShowsOutput(outcome) THEN "display"
             ELSE "idle"
    /\ source' = "none"
    /\ command' = <<>>
    /\ call_directory' = <<>>
    /\ outcome' = NoOutcome
    /\ host_result' = NoHost
    /\ current_dir_label' = IF current_directory' # current_directory
                            THEN process_cwd
                            ELSE current_dir_label
    /\ UNCHANGED <<process_cwd, fs, ai_commands, ai_call, stack,
                   orphaned, voice_vars>>

\* _append_to_terminal has shown the result (lines 535-547) and
\* _on_command_entered returns to the event loop
DisplayDone ==
    /\ pc = "display"
    /\ pc' = "idle"
    /\ UNCHANGED <<current_directory, process_cwd, fs, source, command, call_directory,
                   outcome, host_result, ai_commands, ai_call, existed_when_set, stack,
                   orphaned, current_dir_label, voice_vars>>

\* the direct caller takes the tuple and keeps its own directory
DirectReturn ==
    /\ pc = "returned"
    /\ source = "direct"
    /\ pc' = "idle"
    /\ source' = "none"
    /\ command' = <<>>
    /\ call_directory' = <<>>
    /\ outcome' = NoOutcome
    /\ host_result' = NoHost
    /\ UNCHANGED <<current_directory, process_cwd, fs, ai_commands, existed_when_set,
                   ai_call, stack,
                   orphaned, current_dir_label, voice_vars>>

\* the exception leaves _execute_command: the handler of line 604 catches it
\* and ends the loop; out of the slot _on_command_entered nothing catches it
\* and PyQt6 aborts the process
ExecuteRaise ==
    /\ pc = "returned"
    /\ outcome.raised
    /\ source \in {"typed", "ai"}
    /\ pc' = IF source = "ai" THEN "idle" ELSE "aborted"
    /\ ai_commands' = <<>>
    /\ source' = "none"
    /\ command' = <<>>
    /\ call_directory' = <<>>
    /\ outcome' = NoOutcome
    /\ host_result' = NoHost
    /\ UNCHANGED <<current_directory, process_cwd, fs, existed_when_set, ai_call, stack,
                   orphaned, current_dir_label, voice_vars>>

\* deepest nesting of handlers inside processEvents
MaxNesting == 1

\* where a handler stands inside _append_to_terminal, whose processEvents
\* (line 499) dispatches the events that wait: the echo of the typed command
\* (line 514), the result of a typed command (lines 535-547), and in the
\* loop of _process_with_ai the line of the next command (line 601)
DispatchPoints_BeforeWrite == {"echo", "display", "ai_loop", "returned"}

DispatchPoints == {"echo", "display", "ai_loop"}

\* what a handler keeps on the Python stack while processEvents runs
CurrentFrame ==
    [pc |-> pc, source |-> source, command |-> command,
     call_directory |-> call_directory, outcome |-> outcome,
     host_result |-> host_result, ai_commands |-> ai_commands, ai_call |-> ai_call]

\* _on_command_entered in command mode up to the echo of line 514
EchoCommand(text) ==
    /\ pc = "idle"
    /\ StrStrip(text, PyWhitespace) # <<>>
    /\ command' = StrStrip(text, PyWhitespace)
    /\ pc' = "echo"
    /\ UNCHANGED <<current_directory, process_cwd, fs, source, call_directory, outcome,
                   host_result, ai_commands, ai_call, existed_when_set, stack,
                   orphaned, current_dir_label, voice_vars>>

\* from the echo to the return of execute_command (lines 517-527)
EchoContinue ==
    /\ pc = "echo"
    /\ Call("typed", command, current_directory)
    /\ UNCHANGED <<current_directory, fs, ai_commands, ai_call, existed_when_set, stack,
                   orphaned, current_dir_label, voice_vars>>

\* processEvents finds an event: the handler that called it waits and the
\* event loop is free to run the slot of the event
NestedEvent ==
    /\ pc \in DispatchPoints
    /\ pc = "ai_loop" => ai_commands # <<>>
    /\ Len(stack) < MaxNesting
    /\ stack' = <<CurrentFrame>> \o stack
    /\ pc' = "idle"
    /\ source' = "none"
    /\ command' = <<>>
    /\ call_directory' = <<>>
    /\ outcome' = NoOutcome
    /\ host_result' = NoHost
    /\ ai_commands' = <<>>
    /\ ai_call' = NoAiCall
    /\ UNCHANGED <<current_directory, process_cwd, fs, existed_when_set,
                   orphaned, current_dir_label, voice_vars>>

\* processEvents finds no more events and returns into the waiting handler
ProcessEventsReturn ==
    /\ pc = "idle"
    /\ stack # <<>>
    /\ pc' = Head(stack).pc
    /\ source' = Head(stack).source
    /\ command' = Head(stack).command
    /\ call_directory' = Head(stack).call_directory
    /\ outcome' = Head(stack).outcome
    /\ host_result' = Head(stack).host_result
    /\ ai_commands' = Head(stack).ai_commands
    /\ ai_call' = Head(stack).ai_call
    /\ stack' = Tail(stack)
    /\ UNCHANGED <<current_directory, process_cwd, fs, existed_when_set,
                   orphaned, current_dir_label, voice_vars>>

\* the children that were left running come to their end by themselves
OrphanExits ==
    /\ pc = "idle"
    /\ orphaned
    /\ orphaned' = FALSE
    /\ UNCHANGED <<current_directory, process_cwd, fs, pc, source, command,
                   call_directory, outcome, host_result, ai_commands, ai_call,
                   existed_when_set, stack, current_dir_label, voice_vars>>

\* the directory whose existence a directory of DirUniverse depends on
ParentOf(d) == IF d = DirAA THEN DirA ELSE Root

\* the directories that come and go while the session runs
ChangingDirectories == {DirAA}

\* between two submissions a child process or another program creates or
\* removes a directory
FsChange ==
    /\ pc = "idle"
    /\ \E d \in ChangingDirectories :
        \/ /\ d \in fs
           /\ \A e \in fs : ParentOf(e) # d
           /\ fs' = fs \ {d}
        \/ /\ d \notin fs
           /\ ParentOf(d) \in fs \cup {Root}
           /\ fs' = fs \cup {d}
    /\ UNCHANGED <<current_directory, process_cwd, pc, source, command,
                   call_directory, outcome, host_result, ai_commands, existed_when_set, ai_call, stack,
                   orphaned, current_dir_label, voice_vars>>

\* ------------------------------------------------------------------------
\* AI mode and voice input
\* ------------------------------------------------------------------------
\* what none of the handlers of AI mode and voice input touches
SessionVars == <<current_directory, process_cwd, fs, source, command, call_directory,
                 outcome, host_result, ai_commands, existed_when_set, stack, orphaned,
                 current_dir_label>>

\* the voice button kept on the screen when AI mode is left
VoiceButtonShown_KeptOnDisable(enabled, shown) == enabled \/ shown

\* lines 612 and 637: voice_button.setVisible
VoiceButtonShown(enabled, shown) == enabled

\* AudioRecorder.stop_recording (lines 118-122): stop(), then wait(); the
\* handler goes on at wait_pc when wait() has returned
StopRecorder(wait_pc) ==
    IF isRunning(recorder_thread)
    THEN /\ recorder_thread' = [recorder_thread EXCEPT !._running = FALSE]
         /\ pc' = wait_pc
    ELSE UNCHANGED <<recorder_thread, pc>>

\* lines 678-690; audio_recorder exists whenever is_recording is set
_stop_recording ==
    IF ~is_recording
    THEN UNCHANGED <<is_recording, recorder_thread, pc>>
    ELSE /\ is_recording' = FALSE
         /\ StopRecorder("wait")

\* lines 649-676 and AudioRecorder.start_recording (lines 109-116), which
\* first stops a thread that still runs; ElevenLabsClient is created with
\* the key of line 655 and AudioRecorder with the window
_start_recording ==
    /\ is_recording' = TRUE
    /\ IF isRunning(recorder_thread)
       THEN StopRecorder("wait_start")
       ELSE /\ recorder_thread' = StartedThread
            /\ pc' = pc

\* the else branch of _toggle_ai_mode (lines 631-640)
AiModeDisabled ==
    /\ ai_mode' = FALSE
    /\ voice_visible' = VoiceButtonShown(FALSE, voice_visible)
    /\ _stop_recording

\* the AI button is checked: _toggle_ai_mode(True) (lines 609-630); when
\* LlamaClient() raises, setChecked(False) of line 623 emits toggled and the
\* slot runs again with False
ToggleAiModeOn(created) ==
    /\ pc = "idle"
    /\ ~ai_mode
    /\ IF llama_client \/ created
       THEN /\ ai_mode' = TRUE
            /\ voice_visible' = VoiceButtonShown(TRUE, voice_visible)
            /\ llama_client' = TRUE
            /\ UNCHANGED <<is_recording, recorder_thread, pc>>
       ELSE /\ AiModeDisabled
            /\ UNCHANGED llama_client
    /\ UNCHANGED <<SessionVars, ai_call, pending, stt_call>>

\* the AI button is unchecked: _toggle_ai_mode(False)
ToggleAiModeOff ==
    /\ pc = "idle"
    /\ ai_mode
    /\ AiModeDisabled
    /\ UNCHANGED <<SessionVars, ai_call, llama_client, pending, stt_call>>

\* the voice button is clicked: _toggle_voice_recording (lines 642-647)
VoiceButtonClicked ==
    /\ pc = "idle"
    /\ voice_visible
    /\ IF ~is_recording
       THEN /\ Len(pending) + (IF isRunning(recorder_thread) THEN 1 ELSE 0) < MaxPending
            /\ _start_recording
       ELSE _stop_recording
    /\ UNCHANGED <<SessionVars, ai_call, ai_mode, voice_visible, llama_client, pending,
                   stt_call>>

\* recorder_thread.wait() returns (line 122); start_recording goes on with
\* the new thread (lines 114-116)
WaitReturns ==
    /\ pc \in {"wait", "wait_start"}
    /\ ~isRunning(recorder_thread)
    /\ recorder_thread' = IF pc = "wait_start" THEN StartedThread ELSE recorder_thread
    /\ pc' = "idle"
    /\ UNCHANGED <<SessionVars, ai_call, ai_mode, voice_visible, llama_client,
                   is_recording, pending, stt_call>>

\* a step of AudioRecorderThread.run in its own thread
ThreadStep(at, thread) ==
    /\ recorder_thread.pc = at
    /\ recorder_thread' = thread
    /\ UNCHANGED <<SessionVars, pc, ai_call, ai_mode, voice_visible, llama_client,
                   is_recording, pending, stt_call>>

\* lines 25-36: the stream is open
ThreadOpensStream ==
    ThreadStep("started", [recorder_thread EXCEPT !.pc = "opened", !.frames = <<>>])

\* p.open raises: lines 55-59
ThreadOpenFails ==
    ThreadStep("started", [recorder_thread EXCEPT !.pc = "finally", !.frames = <<>>])

\* line 38
ThreadSetsRunning ==
    ThreadStep("opened", [recorder_thread EXCEPT !.pc = "loop", !._running = TRUE])

\* line 41: _running is found True and stream.read is called
ThreadEntersRead ==
    /\ recorder_thread._running
    /\ ThreadStep("loop", [recorder_thread EXCEPT !.pc = "read"])

\* lines 43-44: stream.read returns one more chunk
ThreadReads ==
    ThreadStep("read", [recorder_thread EXCEPT !.pc = "loop", !.frames =
                            IF Len(@) < MaxFrames THEN Append(@, Chunk) ELSE @])

\* lines 48-53: stream.read raises something other than IOError
ThreadReadFails ==
    ThreadStep("read", [recorder_thread EXCEPT !.pc = "finally"])

\* lines 41 and 52-53: _running is found False
ThreadLeavesLoop ==
    /\ ~recorder_thread._running
    /\ ThreadStep("loop", [recorder_thread EXCEPT !.pc = "finally"])

\* lines 57-63: finished is emitted and queued for the window; run returns
ThreadEmits ==
    /\ recorder_thread.pc = "finally"
    /\ recorder_thread' = [recorder_thread EXCEPT !.pc = "finished"]
    /\ pending' = Append(pending, _frames_to_wav(recorder_thread.frames))
    /\ UNCHANGED <<SessionVars, pc, ai_call, ai_mode, voice_visible, llama_client,
                   is_recording, stt_call>>

\* _process_voice_input up to the return of speech_to_text (lines 692-708);
\* empty audio returns at line 698
ProcessVoiceInput(answer) ==
    /\ pc = "idle"
    /\ pending # <<>>
    /\ pending' = Tail(pending)
    /\ IF Len(Head(pending)) = 0
       THEN UNCHANGED <<pc, stt_call>>
       ELSE /\ stt_call' = [audio |-> Head(pending), answer |-> answer,
                            result |-> speech_to_text(Head(pending), answer)]
            /\ pc' = "stt_returned"
    /\ UNCHANGED <<SessionVars, ai_call, ai_mode, voice_visible, llama_client,
                   is_recording, recorder_thread>>

\* speech_to_text has raised: the handler of lines 721-736
SttError ==
    /\ pc = "stt_returned"
    /\ stt_call.result.raised
    /\ is_recording' = FALSE
    /\ stt_call' = NoSttCall
    /\ pc' = "idle"
    /\ UNCHANGED <<SessionVars, ai_call, ai_mode, voice_visible, llama_client,
                   recorder_thread, pending>>

\* no text has come back (lines 710-712)
SttSilence ==
    /\ pc = "stt_returned"
    /\ ~stt_call.result.raised
    /\ stt_call.result.text = <<>>
    /\ stt_call' = NoSttCall
    /\ pc' = "idle"
    /\ UNCHANGED <<SessionVars, ai_call, ai_mode, voice_visible, llama_client,
                   is_recording, recorder_thread, pending>>

\* the text is handed to _process_with_ai (line 719), here up to the return
\* of get_command
VoiceProcessWithAi(answer) ==
    /\ pc = "stt_returned"
    /\ ~stt_call.result.raised
    /\ stt_call.result.text # <<>>
    /\ ai_call' = [answer |-> answer,
                   result |-> get_command(stt_call.result.text, current_directory, answer)]
    /\ stt_call' = NoSttCall
    /\ pc' = "ai_returned"
    /\ UNCHANGED <<SessionVars, ai_mode, voice_visible, llama_client, is_recording,
                   recorder_thread, pending>>

\* a caller of speech_to_text other than the window
DirectSpeechToText(audio_data, answer) ==
    /\ pc = "idle"
    /\ stt_call' = [audio |-> audio_data, answer |-> answer,
                    result |-> speech_to_text(audio_data, answer)]
    /\ pc' = "stt_direct"
    /\ UNCHANGED <<SessionVars, ai_call, ai_mode, voice_visible, llama_client,
                   is_recording, recorder_thread, pending>>

DirectSttReturn ==
    /\ pc = "stt_direct"
    /\ stt_call' = NoSttCall
    /\ pc' = "idle"
    /\ UNCHANGED <<SessionVars, ai_call, ai_mode, voice_visible, llama_client,
                   is_recording, recorder_thread, pending>>

Next ==
    \/ \E text \in Commands : OnCommandEntered(text)
    \/ \E answer \in ApiAnswers : ProcessWithAi(answer)
    \/ AiError
    \/ AiNothing
    \/ AiSuggests
    \/ AiExecute
    \/ AiDone
    \/ \E cmd \in Commands, dir \in DirectDirectories : DirectCall(cmd, dir)
    \/ ChildExits
    \/ CommunicateTimeout
    \/ ExecuteReturn
    \/ DisplayDone
    \/ DirectReturn
    \/ ExecuteRaise
    \/ FsChange
    \/ OrphanExits

\* sessions in which every handler returns before the next event arrives
Spec == Init /\ [][Next]_vars

\* the commands typed and the answers of the service in the sessions with
\* events that arrive while a handler runs
ReentrantCommands == {<<"c","d"," ",".",".">>, <<"c","d"," ","a">>, <<"l","s">>}

ReentrantAnswers ==
    {[kind |-> "ok", content |-> <<"c","d"," ","a","\n","l","s">>],
     [kind |-> "ok", content |-> <<"c","d"," ",".",".">>],
     [kind |-> "ok", content |-> <<>>],
     [kind |-> "status", content |-> <<>>]}

ReentrantNext ==
    \/ \E text \in ReentrantCommands : EchoCommand(text)
    \/ EchoContinue
    \/ \E answer \in ReentrantAnswers : ProcessWithAi(answer)
    \/ AiError
    \/ AiNothing
    \/ AiSuggests
    \/ AiExecute
    \/ AiDone
    \/ ChildExits
    \/ CommunicateTimeout
    \/ ExecuteReturn
    \/ DisplayDone
    \/ NestedEvent
    \/ ProcessEventsReturn

\* sessions in which events arrive while a handler runs and are dispatched
\* by the processEvents of _append_to_terminal
ReentrantSpec == Init /\ [][ReentrantNext]_vars

\* host commands, directory changes, the exit keyword and a command that
\* the tokenizer rejects
LiveCommands ==
    {<<"l","s">>, <<"d","i","r">>, <<"e","x","i","t"," ","1">>,
     <<"c","d"," ","a">>, <<"c","d"," ",".",".">>, <<"c","d"," ","/","a"," ","a">>,
     <<"e","x","i","t">>, <<"e","c","h","o"," ","\"","a">>}

\* the session of typed commands alone
LiveNext ==
    \/ \E text \in LiveCommands : OnCommandEntered(text)
    \/ ChildExits
    \/ CommunicateTimeout
    \/ ExecuteReturn
    \/ DisplayDone
    \/ ExecuteRaise
    \/ FsChange
    \/ OrphanExits

\* the timer of communicate(timeout=30) expires unless the child exits first
LiveSpec == Init /\ [][LiveNext]_vars /\ WF_vars(CommunicateTimeout)

\* what the service answers to the queries that were spoken
VoiceAnswers == {
    [kind |-> "ok", content |-> <<"c","d"," ",".",".">>],
    [kind |-> "ok", content |-> <<" ">>],
    [kind |-> "status", content |-> <<>>]
}

VoiceNext ==
    \/ \E created \in BOOLEAN : ToggleAiModeOn(created)
    \/ ToggleAiModeOff
    \/ VoiceButtonClicked
    \/ WaitReturns
    \/ ThreadOpensStream
    \/ ThreadOpenFails
    \/ ThreadSetsRunning
    \/ ThreadEntersRead
    \/ ThreadReads
    \/ ThreadReadFails
    \/ ThreadLeavesLoop
    \/ ThreadEmits
    \/ \E answer \in SttAnswers : ProcessVoiceInput(answer)
    \/ SttError
    \/ SttSilence
    \/ \E answer \in VoiceAnswers : VoiceProcessWithAi(answer)
    \/ AiError
    \/ AiNothing
    \/ AiSuggests
    \/ AiExecute
    \/ AiDone
    \/ ExecuteReturn
    \/ \E audio_data \in AudioData, answer \in SttAnswers :
           DirectSpeechToText(audio_data, answer)
    \/ DirectSttReturn

\* sessions with AI mode and voice input
VoiceSpec == Init /\ [][VoiceNext]_vars

\* the recorder thread is scheduled, PyAudio opens the stream or raises,
\* stream.read returns or raises, and wait() returns when the thread has
\* finished
VoiceLiveSpec ==
    /\ VoiceSpec
    /\ WF_vars(ThreadOpensStream \/ ThreadOpenFails)
    /\ WF_vars(ThreadSetsRunning)
    /\ WF_vars(ThreadEntersRead)
    /\ WF_vars(ThreadReads \/ ThreadReadFails)
    /\ WF_vars(ThreadLeavesLoop)
    /\ WF_vars(ThreadEmits)
    /\ WF_vars(WaitReturns)

TypeOK ==
    /\ pc \in {"idle", "echo", "communicate", "returned", "display", "ai_returned",
              "ai_loop", "aborted", "wait", "wait_start", "stt_returned", "stt_direct"}
    /\ ai_mode \in BOOLEAN
    /\ voice_visible \in BOOLEAN
    /\ llama_client \in BOOLEAN
    /\ is_recording \in BOOLEAN
    /\ recorder_thread.pc \in {"none", "started", "opened", "loop", "read", "finally",
                              "finished"}
    /\ recorder_thread._running \in BOOLEAN
    /\ Len(recorder_thread.frames) <= MaxFrames
    /\ Len(pending) <= MaxPending
    /\ \A i \in 1..Len(pending) : pending[i] \in AudioData \ {None}
    /\ stt_call \in [audio : AudioData, answer : SttAnswers,
                      result : [raised : BOOLEAN, text : {<<>>, Transcript},
                                requested : BOOLEAN]]
                    \cup {NoSttCall}
    /\ Len(stack) <= MaxNesting
    /\ ai_call \in [answer : ApiAnswers, result : [raised : BOOLEAN, absent : BOOLEAN,
                                                  commands : Seq(Seq(STRING))]]
                   \cup {NoAiCall}
    /\ host_result \in HostResults \cup {NoHost}
    /\ source \in {"none", "typed", "ai", "direct"}
    /\ existed_when_set \in BOOLEAN
    /\ orphaned \in BOOLEAN
    /\ current_dir_label \in DirUniverse \cup {Root}

\* ------------------------------------------------------------------------
\* Vocabulary of the properties
\* ------------------------------------------------------------------------
\* execute_command has just been left, with the call still in view
AtReturn == pc = "returned"

BlockedText == "Command blocked for safety reasons. Please use a less destructive alternative."

\* sub occurs in s when letter case is ignored
ContainsIgnoringCase(s, sub) ==
    \E i \in 1..(Len(s) + 1) :
        /\ i + Len(sub) - 1 <= Len(s)
        /\ \A k \in 1..Len(sub) : LowerChar(s[i + k - 1]) = LowerChar(sub[k])

\* the command matches the safety policy, letter case ignored
MatchesPolicy(cmd) ==
    \/ \E blocked \in BLOCKED_COMMANDS : ContainsIgnoringCase(cmd, blocked)
    \/ DangerPattern(StrLower(cmd))

\* the tokens of a command that tokenizes, <<>> otherwise
TokensOf(cmd) == IF shlex_split(cmd).ok THEN shlex_split(cmd).parts ELSE <<>>

\* the first token is one of the given verbs, letter case ignored
HasVerb(cmd, verbs) ==
    TokensOf(cmd) # <<>> /\ StrLower(TokensOf(cmd)[1]) \in verbs

CdVerbs == {<<"c","d">>, <<"c","h","d","i","r">>}

\* cd or chdir followed by at least one more token
IsCdWithArgument(cmd) == HasVerb(cmd, CdVerbs) /\ Len(TokensOf(cmd)) > 1

\* the argument of such a command and the path it resolves to
ArgumentOf(cmd) == DirectoryTarget(TokensOf(cmd))
ResolvedOf(cmd, dir) == ResolveTarget(ArgumentOf(cmd), dir)

\* ------------------------------------------------------------------------
\* C1: execute_command never raises: every call, whatever the command and
\* the directory, ends by returning one (output, success, new_directory)
\* tuple.
\* ------------------------------------------------------------------------
C1_NeverRaises == AtReturn => ~outcome.raised

\* ------------------------------------------------------------------------
\* C2: a command that contains a blocked literal or matches a danger
\* pattern, letter case ignored, gets success=False, the fixed "blocked for
\* safety" message and no new directory, whatever the directory.
\* ------------------------------------------------------------------------
C2_BlockedOutcome ==
    (AtReturn /\ MatchesPolicy(command)) =>
        /\ ~outcome.raised
        /\ outcome.success = FALSE
        /\ outcome.output = Message(BlockedText, <<>>, "")
        /\ outcome.new_directory = None

\* a command written in upper case is blocked in a directory other than the
\* initial one
C2_Witness ==
    /\ AtReturn
    /\ MatchesPolicy(command)
    /\ command # StrLower(command)
    /\ call_directory # process_cwd
    /\ outcome.output.prefix = BlockedText

\* ------------------------------------------------------------------------
\* C3: the safety check comes first: a command that matches the policy
\* never reaches the tokenizer, the directory handler, the exit branch or
\* the host shell, and no child process is spawned for it.
\* ------------------------------------------------------------------------
C3_SafetyFirst ==
    (AtReturn /\ _is_dangerous_command(command)) =>
        /\ outcome.branch \notin {"classify", "directory", "exit", "host"}
        /\ ~outcome.spawned

\* the dangerous text is the argument of a directory verb
C3_Witness ==
    /\ AtReturn
    /\ _is_dangerous_command(command)
    /\ HasVerb(command, DIRECTORY_COMMANDS)
    /\ Len(TokensOf(command)) > 1
    /\ outcome.branch = "blocked"

\* ------------------------------------------------------------------------
\* C4: new_directory is present only for a successful cd/chdir with an
\* argument whose resolved path is an existing directory; every failure and
\* every blocked, exit or host outcome has no new directory.
\* ------------------------------------------------------------------------
C4_NewDirectoryOnlyOnChange ==
    (AtReturn /\ ~outcome.raised) =>
        /\ outcome.new_directory # None =>
              /\ outcome.success
              /\ IsCdWithArgument(command)
              /\ isdir(ResolvedOf(command, call_directory), fs, process_cwd)
        /\ ~outcome.success => outcome.new_directory = None
        /\ outcome.branch \in {"blocked", "exit", "host"} =>
              outcome.new_directory = None

C4_Witness ==
    /\ AtReturn
    /\ outcome.success
    /\ outcome.new_directory # None
    /\ outcome.new_directory # call_directory

\* ------------------------------------------------------------------------
\* C5: the session directory changes only when execute_command returned a
\* new directory, and then to that directory; every other step leaves it
\* alone, and a call made for the window receives the directory the session
\* holds.
\* ------------------------------------------------------------------------
C5_SessionDirectoryFrame ==
    [][/\ current_directory' # current_directory =>
              /\ AtReturn
              /\ source \in {"typed", "ai"}
              /\ ~outcome.raised
              /\ outcome.new_directory # None
       /\ (AtReturn /\ source \in {"typed", "ai"} /\ ~outcome.raised
               /\ outcome.new_directory # None) =>
              current_directory' = outcome.new_directory
       /\ (pc' = "returned" /\ source' \in {"typed", "ai"}) =>
              call_directory' = current_directory
      ]_vars

\* a later command of an AI list is called with the directory an earlier
\* one left, and changes it again
C5_Witness ==
    /\ AtReturn
    /\ source = "ai"
    /\ call_directory = current_directory
    /\ current_directory # process_cwd
    /\ outcome.new_directory # None
    /\ outcome.new_directory # current_directory

\* ------------------------------------------------------------------------
\* C6: the session directory is always an absolute path and was an existing
\* directory when it was last set.
\* ------------------------------------------------------------------------
C6_AbsoluteAndExistedWhenSet ==
    /\ isabs(current_directory)
    /\ existed_when_set

\* the session sits in a directory that a cd set and that has since been
\* removed
C6_Witness ==
    /\ pc = "idle"
    /\ current_directory # process_cwd
    /\ ~isdir(current_directory, fs, process_cwd)

\* ------------------------------------------------------------------------
\* C7: for a cd/chdir command that the safety check lets through and whose
\* argument resolves to an existing directory, new_directory is the argument
\* verbatim when it is absolute and the normalized join of the directory and
\* the argument otherwise; "cd .." from D returns the parent of D.
\* ------------------------------------------------------------------------
\* no component of the absolute path is empty, "." or ".."
IsNormalized(path) ==
    \/ path = Root
    \/ /\ isabs(path)
       /\ \A c \in {StrSplit(Tail(path), "/", <<>>, <<>>)[i] :
                       i \in 1..Len(StrSplit(Tail(path), "/", <<>>, <<>>))} :
              c \notin {<<>>, <<".">>, <<".", ".">>}

\* the parent of a normalized directory other than the root
ParentDirectory(path) ==
    PathOf(SubSeq(NamesOf(path), 1, Len(NamesOf(path)) - 1))

C7_ResolvedDirectory ==
    (/\ AtReturn
     /\ ~_is_dangerous_command(command)
     /\ IsCdWithArgument(command)
     /\ isdir(ResolvedOf(command, call_directory), fs, process_cwd)) =>
        /\ ~outcome.raised
        /\ outcome.success
        /\ isabs(ArgumentOf(command)) =>
              outcome.new_directory = ArgumentOf(command)
        /\ ~isabs(ArgumentOf(command)) =>
              /\ outcome.new_directory =
                     normpath(join(call_directory, ArgumentOf(command)))
              /\ IsNormalized(call_directory) => IsNormalized(outcome.new_directory)
        /\ (/\ ArgumentOf(command) = <<".", ".">>
            /\ IsNormalized(call_directory)
            /\ call_directory # Root) =>
              outcome.new_directory = ParentDirectory(call_directory)

\* "cd .." is called in a directory two levels down
C7_Witness ==
    /\ AtReturn
    /\ IsCdWithArgument(command)
    /\ ArgumentOf(command) = <<".", ".">>
    /\ call_directory = DirAA
    /\ outcome.new_directory = DirA

\* ------------------------------------------------------------------------
\* C8: for a cd/chdir command that the safety check lets through and whose
\* resolved target is missing or is not a directory, the outcome is
\* success=False, the "cannot find the path" message naming the argument
\* and not the resolved path, and no new directory.
\* ------------------------------------------------------------------------
C8_PathNotFound ==
    (/\ AtReturn
     /\ ~_is_dangerous_command(command)
     /\ IsCdWithArgument(command)
     /\ ~isdir(ResolvedOf(command, call_directory), fs, process_cwd)) =>
        /\ ~outcome.raised
        /\ outcome.success = FALSE
        /\ outcome.output = Message("The system cannot find the path specified: ",
                                    ArgumentOf(command), "")
        /\ outcome.new_directory = None

\* the target is a regular file, named by a relative argument
C8_Witness ==
    /\ AtReturn
    /\ IsCdWithArgument(command)
    /\ ResolvedOf(command, call_directory) = FileAA
    /\ ArgumentOf(command) # FileAA
    /\ outcome.success = FALSE

\* ------------------------------------------------------------------------
\* C9: a bare cd or chdir, in any letter case and with surrounding
\* whitespace, returns success=True, the directory it was given as the
\* message and no new directory, and the session directory stays as it is.
\* ------------------------------------------------------------------------
\* the command is the verb alone between spaces, tabs and line ends
IsBareCd(cmd) == StrLower(StrStrip(cmd, {" ", "\t", "\r", "\n"})) \in CdVerbs

C9_BareCdIsQuery ==
    /\ [](AtReturn /\ IsBareCd(command) =>
              /\ ~outcome.raised
              /\ outcome.success
              /\ outcome.output = Message("", call_directory, "")
              /\ outcome.new_directory = None)
    /\ [][AtReturn /\ IsBareCd(command) => current_directory' = current_directory]_vars

\* the bare verb, in another letter case, asked in a directory other than
\* the one the process runs in
C9_Witness ==
    /\ AtReturn
    /\ IsBareCd(command)
    /\ command # StrLower(command)
    /\ call_directory # process_cwd
    /\ outcome.output.text = call_directory

\* ------------------------------------------------------------------------
\* C10: quoting round trip: cd followed by a directory name in double
\* quotes and cd followed by the same name without the quotes give the same
\* outcome from the same directory.
\* ------------------------------------------------------------------------
\* the command is cd, a space and a double-quoted text
IsQuotedCd(cmd) ==
    /\ Len(cmd) >= 6
    /\ StartsWith(cmd, <<"c", "d", " ", "\"">>)
    /\ cmd[Len(cmd)] = "\""

QuotedName(cmd) == SubSeq(cmd, 5, Len(cmd) - 1)

UnquotedCd(name) == <<"c", "d", " ">> \o name

\* words without quote characters, separated by one or more spaces
IsSpacedName(name) ==
    /\ name # <<>>
    /\ name[1] # " "
    /\ name[Len(name)] # " "
    /\ \A i \in 1..Len(name) : name[i] \notin {"\"", "'", "\t", "\n", "\r", "\f"}

\* the same, with exactly one space between two words
IsSingleSpacedName(name) ==
    /\ IsSpacedName(name)
    /\ \A i \in 1..(Len(name) - 1) : ~(name[i] = " " /\ name[i + 1] = " ")

\* what the unquoted form gives in the state of the quoted call
UnquotedOutcome ==
    execute_command(UnquotedCd(QuotedName(command)), call_directory, fs, process_cwd,
                    [kind |-> "launchfail", returncode |-> 0,
                     stdout |-> <<>>, stderr |-> <<>>])

SameResolution(o1, o2) ==
    /\ o1.raised = o2.raised
    /\ o1.success = o2.success
    /\ o1.new_directory = o2.new_directory

\* the claim as stated: any number of spaces between the words
C10_QuotingRoundTrip ==
    (AtReturn /\ IsQuotedCd(command) /\ IsSpacedName(QuotedName(command))) =>
        SameResolution(outcome, UnquotedOutcome)

\* C10 as amended: the round trip holds when the words are separated by
\* single spaces
C10_QuotingRoundTripSingleSpaces ==
    (AtReturn /\ IsQuotedCd(command) /\ IsSingleSpacedName(QuotedName(command))) =>
        SameResolution(outcome, UnquotedOutcome)

\* the quoted form of a name with a space in it changes directory
C10_Witness ==
    /\ AtReturn
    /\ IsQuotedCd(command)
    /\ IsSingleSpacedName(QuotedName(command))
    /\ \E i \in 1..Len(QuotedName(command)) : QuotedName(command)[i] = " "
    /\ outcome.success
    /\ outcome.new_directory # None

\* ------------------------------------------------------------------------
\* Vocabulary of the host-execution properties
\* ------------------------------------------------------------------------
\* the call went to the host and its child completed with an exit code
ChildCompleted == AtReturn /\ host_result.kind = "exit"

\* what the child wrote to a stream, as text, with the whitespace at both
\* ends trimmed
TrimmedText(bytes) == StrStrip(TranslateNewlines(bytes), PyWhitespace)

\* ------------------------------------------------------------------------
\* C11: when a host-executed command completes with exit code 0,
\* execute_command returns success=True, the child's standard output with
\* the whitespace at both ends trimmed as the message (standard error is
\* not included) and no new directory.
\* ------------------------------------------------------------------------
C11_ExitZero ==
    (ChildCompleted /\ host_result.returncode = 0) =>
        /\ ~outcome.raised
        /\ outcome.success = TRUE
        /\ outcome.output = Message("", TrimmedText(host_result.stdout), "")
        /\ outcome.new_directory = None

\* ------------------------------------------------------------------------
\* C12: when a host-executed command completes with a non-zero exit code,
\* execute_command returns success=False, the message "Error: " followed by
\* the trimmed standard error (standard output is discarded) and no new
\* directory.
\* ------------------------------------------------------------------------
C12_ExitNonZero ==
    (ChildCompleted /\ host_result.returncode # 0) =>
        /\ ~outcome.raised
        /\ outcome.success = FALSE
        /\ outcome.output = Message("Error: ", TrimmedText(host_result.stderr), "")
        /\ outcome.new_directory = None

\* ------------------------------------------------------------------------
\* C13: host execution always terminates.  A call that waits for its child
\* returns; when the 30 seconds expire with the child still running, it
\* returns success=False, the timeout message, none of the output the child
\* produced so far and no new directory.
\* ------------------------------------------------------------------------
C13_TimeoutReturns ==
    /\ [](AtReturn /\ host_result.kind = "timeout" =>
            /\ ~outcome.raised
            /\ outcome.success = FALSE
            /\ outcome.output = Message("Command timed out after 30 seconds", <<>>, "")
            /\ outcome.new_directory = None)
    /\ (pc = "communicate" ~> pc = "returned")

\* the timeout expired on a child that had written output
C13_Witness ==
    /\ AtReturn
    /\ host_result.kind = "timeout"
    /\ host_result.stdout # <<>>
    /\ outcome.success = FALSE

\* ------------------------------------------------------------------------
\* C14: a failure to launch the child in the host-execution branch (the
\* current directory is gone, the shell cannot be started) is caught and
\* returned as success=False with the "Failed to execute command" message
\* and no new directory, and the session directory is left as it is.
\* ------------------------------------------------------------------------
LaunchFailed == AtReturn /\ host_result.kind = "launchfail"

C14_LaunchFailureCaught ==
    /\ [](LaunchFailed =>
            /\ ~outcome.raised
            /\ outcome.success = FALSE
            /\ outcome.output = Message("Failed to execute command: ", <<>>, "")
            /\ outcome.new_directory = None
            /\ ~outcome.spawned)
    /\ [][LaunchFailed => current_directory' = current_directory]_vars

\* the session sits in a directory that was removed and runs a host command
C14_Witness ==
    /\ LaunchFailed
    /\ source = "typed"
    /\ call_directory = current_directory
    /\ ~isdir(call_directory, fs, process_cwd)
    /\ outcome.success = FALSE

\* ------------------------------------------------------------------------
\* C15: a command whose trimmed, lowercased text is exactly exit or quit
\* returns the notice with success=True and no new directory and spawns no
\* child; any other text never gets the notice, and a text that holds the
\* keyword without being it (exit 1) and that the safety and directory
\* checks let through goes to host execution.
\* ------------------------------------------------------------------------
ExitKeywords == {<<"e","x","i","t">>, <<"q","u","i","t">>}

IsExactKeyword(cmd) == StrLower(StrStrip(cmd, PyWhitespace)) \in ExitKeywords

HoldsKeyword(cmd) == \E k \in ExitKeywords : ContainsIgnoringCase(cmd, k)

ExitNotice == Message("Use the window close button to exit the application.", <<>>, "")

\* the call has started a child, or has returned from the host branch
WentToHost == pc = "communicate" \/ (AtReturn /\ outcome.branch = "host")

C15_ExactExitOnly ==
    /\ (AtReturn /\ IsExactKeyword(command)) =>
            /\ ~outcome.raised
            /\ outcome.success = TRUE
            /\ outcome.output = ExitNotice
            /\ outcome.new_directory = None
            /\ ~outcome.spawned
            /\ host_result = NoHost
    /\ (AtReturn /\ ~IsExactKeyword(command)) => outcome.output # ExitNotice
    /\ (/\ pc \in {"communicate", "returned"}
        /\ HoldsKeyword(command)
        /\ ~IsExactKeyword(command)
        /\ ~_is_dangerous_command(command)
        /\ _is_directory_command(command) = "false") => WentToHost

\* the keyword in another letter case or between spaces
C15_Witness ==
    /\ AtReturn
    /\ IsExactKeyword(command)
    /\ command \notin ExitKeywords
    /\ outcome.output = ExitNotice

\* ------------------------------------------------------------------------
\* C16: a command that the safety check lets through and whose first token,
\* lowercased, is pushd or popd, with or without arguments, returns
\* success=False, the "not fully implemented" message naming the verb and
\* no new directory; it starts no child and the session directory stays as
\* it is.
\* ------------------------------------------------------------------------
StackVerbs == {<<"p","u","s","h","d">>, <<"p","o","p","d">>}

IsStackCommand(cmd) == ~_is_dangerous_command(cmd) /\ HasVerb(cmd, StackVerbs)

C16_StackVerbsUnimplemented ==
    /\ [](pc = "communicate" => ~IsStackCommand(command))
    /\ [](AtReturn /\ IsStackCommand(command) =>
            /\ ~outcome.raised
            /\ outcome.success = FALSE
            /\ outcome.output = Message("Command ", StrLower(TokensOf(command)[1]),
                                        " not fully implemented.")
            /\ outcome.new_directory = None
            /\ ~outcome.spawned
            /\ host_result = NoHost)
    /\ [][AtReturn /\ IsStackCommand(command) =>
              current_directory' = current_directory]_vars

\* pushd with the name of a directory that exists, typed in the session
C16_Witness ==
    /\ AtReturn
    /\ source = "typed"
    /\ IsStackCommand(command)
    /\ Len(TokensOf(command)) > 1
    /\ isdir(ResolvedOf(command, call_directory), fs, process_cwd)
    /\ outcome.success = FALSE

\* ------------------------------------------------------------------------
\* C17: the gate is stateless.  No step changes the working directory of
\* the process (the attributes of CommandExecutor are the definitions
\* DIRECTORY_COMMANDS and BLOCKED_COMMANDS, which nothing assigns), and the
\* outcome of the blocked, directory and exit branches is the one that
\* (command, current_directory, filesystem) give, whatever calls were made
\* before and wherever the process stands.
\* ------------------------------------------------------------------------
NonHostBranches == {"blocked", "directory", "exit"}

C17_GateStateless ==
    /\ [][process_cwd' = process_cwd]_vars
    /\ [](AtReturn /\ ~outcome.raised /\ outcome.branch \in NonHostBranches =>
            \A c \in DirUniverse :
                outcome = execute_command(command, call_directory, fs, c, NoHost))

\* a relative directory change made after the session has moved away from
\* the directory of the process
C17_Witness ==
    /\ AtReturn
    /\ source = "typed"
    /\ call_directory # process_cwd
    /\ IsCdWithArgument(command)
    /\ ~isabs(ArgumentOf(command))
    /\ outcome.new_directory # None

\* ------------------------------------------------------------------------
\* Vocabulary of the AI client properties
\* ------------------------------------------------------------------------
\* get_command has just been left, with the answer of the service in view
AtAiReturn == pc = "ai_returned"

\* the request failed: another status than 200, no choices or no content
\* in the answer, or an exception of the transport
RequestFailed == ai_call.answer.kind \in {"no_choices", "no_content", "status", "transport"}

\* the answer is the given list, one command per line
AnswersList(list) ==
    ai_call.answer.kind = "ok" /\ ai_call.answer.content = StrJoin(<<"\n">>, list)

\* what get_command gave back holds the list in order
ReturnsList(list) ==
    /\ ~ai_call.result.raised
    /\ ~ai_call.result.absent
    /\ ai_call.result.commands = list

\* what get_command gave back is empty or absent
ReturnsNothing ==
    /\ ~ai_call.result.raised
    /\ ai_call.result.absent \/ ai_call.result.commands = <<>>

\* ------------------------------------------------------------------------
\* C20: get_command returns the commands as an ordered list when the
\* translation succeeds, and returns an empty or absent result, and does
\* not raise, when the request fails.
\* ------------------------------------------------------------------------
C20_ReturnsOrAbsent ==
    AtAiReturn =>
        /\ \A list \in AiLists : AnswersList(list) => ReturnsList(list)
        /\ RequestFailed => ReturnsNothing

\* C20 as the code has it: the ordered list on success; an absent result
\* when the content of the answer is blank; an exception when the request
\* fails
C20_ListOrAbsentOrRaises ==
    AtAiReturn =>
        /\ \A list \in AiLists : AnswersList(list) => ReturnsList(list)
        /\ (/\ ai_call.answer.kind = "ok"
            /\ StrStrip(ai_call.answer.content, PyWhitespace) = <<>>) =>
                ~ai_call.result.raised /\ ai_call.result.absent
        /\ ai_call.answer.kind = "ok" => ~ai_call.result.raised
        /\ RequestFailed => ai_call.result.raised

\* the service answers with another status than 200 and get_command raises
C20_Witness ==
    /\ AtAiReturn
    /\ ai_call.answer.kind = "status"
    /\ ai_call.result.raised

\* ------------------------------------------------------------------------
\* Vocabulary of the session properties
\* ------------------------------------------------------------------------
\* a call of execute_command made by the window has read the session
\* directory and has not yet written the new one
InFlight(frame) == frame.pc \in {"communicate", "returned"} /\ frame.source \in {"typed", "ai"}

\* the calls in flight, the running handler's and the waiting handlers'
CallsInFlight ==
    (IF InFlight(CurrentFrame) THEN 1 ELSE 0)
    + Cardinality({i \in 1..Len(stack) : InFlight(stack[i])})

\* ------------------------------------------------------------------------
\* C18: at most one execute_command call is in flight in the window.  From
\* the read of current_directory to the write of the new directory no other
\* submission reads or writes it: the directory that was read is still the
\* session's directory, and no handler is dispatched, for every interleaving
\* of typed commands and AI command lists (typed in AI mode or spoken) with
\* the events that processEvents dispatches inside _append_to_terminal.
\* ------------------------------------------------------------------------
C18_OneCallInFlight ==
    /\ [](CallsInFlight <= 1)
    /\ [](InFlight(CurrentFrame) => call_directory = current_directory)
    /\ [][InFlight(CurrentFrame) =>
            /\ stack' = stack
            /\ \/ InFlight(CurrentFrame)' /\ command' = command
                                          /\ call_directory' = call_directory
               \/ ~InFlight(CurrentFrame)']_vars

\* a typed command waits for its child while the loop of an AI command list
\* waits inside processEvents, after the session has changed directory
C18_Witness ==
    /\ pc = "communicate"
    /\ source = "typed"
    /\ stack # <<>>
    /\ Head(stack).pc = "ai_loop"
    /\ current_directory # process_cwd

\* ------------------------------------------------------------------------
\* C19: no error is fatal to the session.  No exception leaves a handler of
\* the window: after a failure of the gate (an exception or success=False)
\* or of the AI client (an exception of get_command) the session directory
\* is the one it was and the window goes on to the display of the error and
\* to the next command.
\* ------------------------------------------------------------------------
GateFailed == AtReturn /\ source \in {"typed", "ai"} /\ (outcome.raised \/ ~outcome.success)

ClientFailed == pc = "ai_returned" /\ ai_call.result.raised

C19_NoErrorIsFatal ==
    /\ [](pc # "aborted")
    /\ [][(GateFailed \/ ClientFailed) =>
            /\ current_directory' = current_directory
            /\ pc' \in {"idle", "display", "ai_loop"}]_vars

\* ------------------------------------------------------------------------
\* C23: for cd/chdir with an argument the handler strips exactly one layer
\* of surrounding quote characters from the space-joined argument: two
\* layers of quotes keep the inner one, and an argument without surrounding
\* quotes is left as it is.
\* ------------------------------------------------------------------------
QuoteChars == {"\"", "'"}

\* the tokens after the verb, joined by single spaces
JoinedArgument(cmd) == StrJoin(<<" ">>, Tail(TokensOf(cmd)))

\* one quote character less at each end that has one
StripOneLayer(s) ==
    LET front == IF s # <<>> /\ Head(s) \in QuoteChars THEN Tail(s) ELSE s
    IN  IF front # <<>> /\ front[Len(front)] \in QuoteChars
        THEN SubSeq(front, 1, Len(front) - 1)
        ELSE front

C23_StripsOneLayer ==
    (/\ AtReturn
     /\ ~_is_dangerous_command(command)
     /\ IsCdWithArgument(command)) =>
        LET target == StripOneLayer(JoinedArgument(command))
            new_dir == ResolveTarget(target, call_directory)
        IN  IF isdir(new_dir, fs, process_cwd)
            THEN outcome.success /\ outcome.new_directory = new_dir
            ELSE /\ ~outcome.success
                 /\ outcome.new_directory = None
                 /\ outcome.output.text = target

\* ------------------------------------------------------------------------
\* C24: a command that the safety check lets through and that tokenizes is
\* routed to the directory handler exactly when its first token, lowercased,
\* is cd, chdir, pushd or popd.  "cd..", "cd/a" and a command with no
\* tokens are not directory commands: they take the exit or host path and
\* return no new directory.
\* ------------------------------------------------------------------------
DirectoryVerbs == CdVerbs \cup StackVerbs

Tokenizes(cmd) == shlex_split(cmd).ok

C24_RoutedByFirstToken ==
    /\ pc = "communicate" => ~HasVerb(command, DirectoryVerbs)
    /\ (AtReturn /\ ~MatchesPolicy(command) /\ Tokenizes(command)) =>
          /\ ~outcome.raised
          /\ outcome.branch = "directory" <=> HasVerb(command, DirectoryVerbs)
          /\ ~HasVerb(command, DirectoryVerbs) =>
                /\ outcome.branch \in {"exit", "host"}
                /\ outcome.new_directory = None

\* "cd.." has gone to the host and the empty command has too
C24_Witness ==
    /\ AtReturn
    /\ command \in {<<"c","d",".",".">>, <<>>}
    /\ outcome.branch = "host"
    /\ outcome.spawned
    /\ outcome.new_directory = None

\* ------------------------------------------------------------------------
\* C26: _extract_commands returns, in their order, the stripped lines of
\* the response that remain after a first line starting with the code-block
\* marker and a last line that is exactly the marker are dropped, leaving
\* out the empty lines and the lines starting with '#' or '//'; no command
\* it returns is empty.
\* ------------------------------------------------------------------------
\* the lines of the text the service answered with
ResponseLines ==
    StrSplit(StrStrip(ai_call.answer.content, PyWhitespace), "\n", <<>>, <<>>)

Trimmed(line) == StrStrip(line, PyWhitespace)

IsComment(line) == StartsWith(line, <<"#">>) \/ StartsWith(line, <<"/", "/">>)

\* the positions of the lines that are commands
CommandLines ==
    {i \in 1..Len(ResponseLines) :
        /\ ~(i = 1 /\ StartsWith(ResponseLines[i], Fence))
        /\ ~(i = Len(ResponseLines) /\ ResponseLines[i] = Fence)
        /\ Trimmed(ResponseLines[i]) # <<>>
        /\ ~IsComment(Trimmed(ResponseLines[i]))}

\* the position of the j-th of them
NthCommandLine(j) ==
    CHOOSE i \in CommandLines : Cardinality({k \in CommandLines : k <= i}) = j

C26_ExtractsCommandLines ==
    (AtAiReturn /\ ~ai_call.result.raised /\ ~ai_call.result.absent) =>
        /\ Len(ai_call.result.commands) = Cardinality(CommandLines)
        /\ \A j \in 1..Len(ai_call.result.commands) :
              /\ ai_call.result.commands[j] = Trimmed(ResponseLines[NthCommandLine(j)])
              /\ ai_call.result.commands[j] # <<>>

\* a fenced answer with a language tag, and an answer led by a comment
C26_Witness ==
    /\ AtAiReturn
    /\ ai_call.answer.content \in
           {Fence \o <<"c","m","d","\n","c","d"," ","a","\n">> \o Fence,
            <<"#"," ","x","\n","l","s">>}
    /\ Len(ai_call.result.commands) = 1
    /\ Len(ResponseLines) > 1

\* ------------------------------------------------------------------------
\* C27: every command whose text, lowercased, contains 'format' anywhere is
\* blocked, also where it is part of another word or an argument, and never
\* reaches the host; the 'format + drive letter' pattern never changes the
\* verdict: whatever it matches holds the literal, and a blocked command
\* without the literal matches another entry of the policy.
\* ------------------------------------------------------------------------
FormatLiteral == <<"f","o","r","m","a","t">>

HoldsFormat(cmd) == ContainsIgnoringCase(cmd, FormatLiteral)

\* the entries of the policy that are not about format
OtherPolicyEntries(cmd) ==
    \/ ContainsIgnoringCase(cmd, <<"r","m"," ","-","r","f"," ","/">>)
    \/ ContainsIgnoringCase(cmd, <<"r","m","d","i","r"," ","/","s"," ","/","q"," ","c",":">>)
    \/ ContainsIgnoringCase(cmd, <<"d","e","l"," ","/","f"," ","/","s"," ","/","q">>)
    \/ MatchRm(StrLower(cmd))
    \/ MatchRmdir(StrLower(cmd))
    \/ MatchDel(StrLower(cmd))

C27_FormatAnywhereBlocked ==
    /\ pc = "communicate" => ~HoldsFormat(command)
    /\ (AtReturn /\ HoldsFormat(command)) =>
          /\ ~outcome.raised
          /\ outcome.output = Message(BlockedText, <<>>, "")
          /\ outcome.success = FALSE
          /\ outcome.new_directory = None
          /\ ~outcome.spawned
    /\ AtReturn =>
          /\ MatchFormat(StrLower(command)) => HoldsFormat(command)
          /\ (~outcome.raised /\ outcome.output.prefix = BlockedText /\ ~HoldsFormat(command))
                => OtherPolicyEntries(command)

\* 'format' inside another word, as an argument of cd, and with a drive
C27_Witness ==
    /\ AtReturn
    /\ command \in {<<"e","c","h","o"," ","i","n","f","o","r","m","a","t","i","o","n">>,
                    <<"c","d"," ","f","o","r","m","a","t">>}
    /\ ~MatchFormat(StrLower(command))
    /\ outcome.output.prefix = BlockedText

\* ------------------------------------------------------------------------
\* C22: every command of the list the AI client returned is submitted to
\* execute_command, one by one and in list order; none reaches the host
\* without passing the safety check; each is called with the session
\* directory the commands before it have left; and whatever a command's
\* outcome, the commands after it are still submitted.
\* ------------------------------------------------------------------------
\* the loop of _process_with_ai calls execute_command
SubmitsNext == pc = "ai_loop" /\ pc' \in {"returned", "communicate"}

\* the call made for a command of the list is over
AiCallOver == pc = "returned" /\ source = "ai"

C22_EveryAiCommandSubmitted ==
    /\ [][SubmitsNext =>
            /\ source' = "ai"
            /\ command' = Head(ai_commands)
            /\ ai_commands' = Tail(ai_commands)
            /\ call_directory' = current_directory]_vars
    /\ [](pc = "communicate" /\ source = "ai" => ~MatchesPolicy(command))
    /\ [][AiCallOver =>
            /\ pc' = "ai_loop"
            /\ ai_commands' = ai_commands
            /\ current_directory' \in {current_directory, outcome.new_directory}]_vars
    /\ [][pc = "ai_loop" /\ ai_commands # <<>> => pc' # "idle"]_vars

\* ------------------------------------------------------------------------
\* C25: when the 30 seconds expire, execute_command returns the timeout
\* outcome and leaves the child alone: the child is still running when the
\* call has returned, and no step of the gate or of the window ends it
\* afterwards; it ends only by itself.
\* ------------------------------------------------------------------------
\* what the gate and the window hold
ProgramState ==
    <<current_directory, process_cwd, pc, source, command, call_directory, outcome,
      host_result, ai_commands, ai_call, stack, current_dir_label>>

C25_TimeoutLeavesChildRunning ==
    /\ [](AtReturn /\ host_result.kind = "timeout" =>
            /\ outcome.output.prefix = "Command timed out after 30 seconds"
            /\ outcome.spawned
            /\ orphaned)
    /\ [][pc = "communicate" /\ orphaned => orphaned']_vars
    /\ [][orphaned /\ ~orphaned' => UNCHANGED ProgramState]_vars

\* a later command has run to its end beside the child that was left
C25_Witness ==
    /\ AtReturn
    /\ host_result.kind = "exit"
    /\ orphaned

\* ------------------------------------------------------------------------
\* C29: after every command handled by _execute_command the header label
\* shows the session's current_directory; after a successful cd it shows
\* the new directory.
\* ------------------------------------------------------------------------
C29_LabelShowsSessionDirectory ==
    pc \in {"idle", "display", "ai_loop"} => current_dir_label = current_directory

\* ------------------------------------------------------------------------
\* C28: after start_recording(), stop_recording() always completes: the
\* thread leaves its read loop, emits finished and wait() returns, however
\* stop() falls among the steps of run(), also when stop() runs before
\* run() has set _running to True.
\* ------------------------------------------------------------------------
\* the window is inside recorder_thread.wait()
InWait == pc \in {"wait", "wait_start"}

\* wait() returns only from a thread that has emitted finished and returned
C28_StopAlwaysCompletes ==
    /\ [][InWait /\ ~InWait' => recorder_thread.pc = "finished"]_vars
    /\ InWait ~> ~InWait

\* ------------------------------------------------------------------------
\* C21: speech_to_text rejects empty audio, None or zero bytes, by raising
\* before any request is sent; for audio that is not empty it returns the
\* text the service transcribed, or raises.
\* ------------------------------------------------------------------------
AtSttReturn == pc \in {"stt_returned", "stt_direct"}

EmptyAudio(audio) == audio = None \/ audio = <<>>

\* the service has answered 200 with a body that can be read
Transcribed == stt_call.answer.kind \in {"ok", "no_text"}

C21_EmptyAudioRejectedFirst ==
    AtSttReturn =>
        /\ EmptyAudio(stt_call.audio) =>
              /\ stt_call.result.raised
              /\ ~stt_call.result.requested
        /\ ~EmptyAudio(stt_call.audio) =>
              /\ stt_call.result.requested
              /\ stt_call.result.raised <=> ~Transcribed
              /\ ~stt_call.result.raised => stt_call.result.text = stt_call.answer.text

\* zero bytes were passed while the service was ready to answer with a text
C21_Witness ==
    /\ pc = "stt_direct"
    /\ stt_call.audio = <<>>
    /\ stt_call.answer = [kind |-> "ok", text |-> Transcript]
    /\ stt_call.result.raised

\* ------------------------------------------------------------------------
\* C30: whenever AI mode is off, is_recording is False: leaving AI mode
\* stops a recording that is in progress, and no recording starts while AI
\* mode is off.
\* ------------------------------------------------------------------------
C30_NoRecordingOutsideAiMode ==
    /\ [](~ai_mode => ~is_recording)
    /\ [][ai_mode /\ ~ai_mode' => ~is_recording']_vars
    /\ [][~is_recording /\ is_recording' => ai_mode /\ ai_mode']_vars

\* AI mode was left during a recording: the window waits for the thread
C30_Witness ==
    /\ ~ai_mode
    /\ pc = "wait"
    /\ ~is_recording
    /\ recorder_thread.pc \in {"loop", "read"}

====
